---- MODULE Spec2Model ----
(***************************************************************************)
(* State-machine model of the PCM recorder of js/recorder-box.js together  *)
(* with the IndexedDB chunk store of js/adapters/storage-indexeddb.js.     *)
(*                                                                         *)
(* JavaScript runs one task at a time.  A step of the model is one task of *)
(* the event loop: a call of the public API up to its first await, an      *)
(* audio callback, the microtask it schedules, a timer tick, or the        *)
(* completion of one storage request together with the continuation of the *)
(* async function that awaited it.                                         *)
(*                                                                         *)
(* Frames are counted at a reduced scale: the device delivers blocks of    *)
(* BlockLen frames and a slice has SliceFrames frames.  Frame n of the     *)
(* device stream carries the stereo sample DeviceSample(c, n), so every    *)
(* downmixed sample is distinct and its place in the stream can be read    *)
(* off its value; frames are numbered over the blocks the callback keeps,  *)
(* a block it returns from at once leaves no trace.  updatedAt and the     *)
(* level meter are not modelled.                                           *)
(*                                                                         *)
(* Every putChunk is a readwrite transaction on 'chunks', and transactions *)
(* of overlapping scope run in the order they were created, so the chunk   *)
(* writes complete oldest first.  Requests on 'recordings' and 'manifests' *)
(* are held by the suspended start() and stop() calls and may complete in  *)
(* any order, which covers every order the store can produce.              *)
(***************************************************************************)
EXTENDS Integers, Sequences, FiniteSets, TLC

\* ---------------------------------------------------------------- bounds
MaxTime     == 2    \* Date.now() runs over 1..MaxTime+1
MaxBlocks   == 3    \* blocks the callback keeps in one behaviour
MaxSessions == 2    \* start() calls that get past the status check
MaxStops    == 2    \* stop() calls that get past the status check
MaxCalls    == 3    \* start() and stop() calls together that get past it
MaxTimedBlocks == 2 \* blocks the callback keeps while the clock runs (Spec)
MaxTimedSessions == 1 \* accepted start() calls while the clock runs (Spec)
BlockLen    == 2    \* frames per audio callback (bufferSize, scaled)
SliceFrames == 3    \* frames per full slice (sliceFramesTarget, scaled)
MaxIndex    == 1    \* a direct caller of the adapter writes chunk indices 0..MaxIndex
MaxSample   == 3    \* samples a direct caller writes run over -MaxSample..MaxSample
SampleUnit  == 2    \* a sample of value v is kept as the integer v * SampleUnit
MaxRunChunks == 4   \* chunks of one session followed under SpecSlices
MaxMrTime   == 1    \* Date.now() runs over 1..MaxMrTime+1 under SpecAdapter
MaxMrData   == 1    \* timeslice chunks the MediaRecorders deliver in one behaviour
MaxChunkMs  == 300  \* chunkSeconds options run over 0..MaxChunkMs milliseconds

\* ------------------------------------------------------------- constants
ctxSampleRate == 1000   \* ctx.sampleRate, frames per second
inChannels    == 2      \* Math.min(2, src.channelCount || 2)
BytesPerFrame == 4      \* Float32Array element size
DefaultRate   == 48000  \* manifest?.sampleRate || 48000
WavHeaderBytes == 44    \* new ArrayBuffer(44 + dataSize)
Int16Neg      == 32768  \* 0x8000
Int16Pos      == 32767  \* 0x7FFF
DefaultChunkMs == 2000  \* chunkSeconds = 2, and Number(chunkSeconds) || 2
MinSliceMs    == 250    \* Math.max(0.25, ...)
InitialRate   == 48000  \* let sampleRate = 48000
FrameAlign    == 128    \* Math.round(... / 128) * 128

NullId == 0
Ids    == 1..MaxSessions

VARIABLES
  now,               \* Date.now()
  status, currentId, chunkIndex, startTs, pausedAccum, pauseTs, isPaused,
  stats, statsTimer,
  stream, proc,      \* handle of the held stream / processor, 0 = null
  live,              \* handles whose tracks run and whose processor fires
  sampleRate, sliceFramesTarget, accum,
  microtask,         \* a flushFullSlices microtask is queued
  inflight,          \* putChunk transactions on 'chunks', oldest first
  startTasks,        \* start() calls suspended at an await
  stopTasks,         \* stop() calls suspended at an await
  recordings, manifests, chunks,   \* the three object stores
  nextFrame, nBlocks, nStarts, nStops,
  lastCall,          \* the API call the last step rejected at its status check, or "none"
  emitStatus, emitChunk, emitStats,  \* events emitted by the last step
  \* history of the run, read by the properties only
  accepted,          \* per recording: downmixed samples the callback kept
  stopped,           \* recordings whose stop() ran to its end
  durLog, readyLog,  \* per recording: writes of durationMs / of 'ready'
  spanSum, spanStart,\* completed pause spans of the session, start of the open one
  dupPuts,           \* putChunk calls that hit an existing key
  tornDownWith,      \* in-flight putChunks at the last teardown
  stopOutcome,       \* per stop() call: "none", "pending", "done" or "rejected"
  startErr,          \* start() calls that getUserMedia rejected, with the error
  consoleLog,        \* what console.error was handed, oldest first
  \* callers of the storage adapter other than the recorder
  storeCall,         \* the last call made on the adapter and how it settled
  delTasks,          \* deleteRecording calls between two of their transactions
  delLog,            \* per recording: what the last deleteRecording found in the store
  \* reconstruction: the player and the export handler of the harness
  playJob,           \* the playInto or export call in progress, or the last one
  mediaSource,       \* the MediaSource and SourceBuffer of playMSESequence
  rendered,          \* what was handed to the audio element or to the download link
  chunkSeconds,      \* the chunkSeconds option of createRecorderBox, in milliseconds
  reported,          \* a 'stats' event was emitted since beginSession last reset the session
  \* the container-native recorder (adapters/recorder-box.js)
  mediaRecorder,     \* handle of the MediaRecorder the controller refers to, 0 = null
  mrObj,             \* per MediaRecorder object: its state and the events queued for it
  sessLog,           \* per session: when it began and its own paused time (history)
  mrLog              \* what the handlers of the MediaRecorders wrote or lost (history)

ctl   == <<status, currentId, chunkIndex, startTs, pausedAccum, pauseTs, isPaused>>
graph == <<stream, proc, live, sampleRate, sliceFramesTarget>>
store == <<recordings, manifests, chunks>>
cnt   == <<nextFrame, nBlocks, nStarts, nStops>>
emits == <<emitStatus, emitChunk, emitStats>>
hist  == <<accepted, stopped, durLog, readyLog, spanSum, spanStart, dupPuts, tornDownWith>>
fails == <<startErr, consoleLog>>
play  == <<playJob, mediaSource, rendered>>
opts  == <<chunkSeconds>>
mr    == <<mediaRecorder, mrObj, sessLog, mrLog>>
lib   == <<storeCall, delTasks, delLog, play, opts, reported, mr>>
aux   == <<stopOutcome, fails, lib>>
recorder == <<now, ctl, stats, statsTimer, graph, accum, microtask, inflight,
              startTasks, stopTasks, cnt, lastCall, emits, hist, stopOutcome, fails,
              opts, reported, mr>>
vars  == <<now, ctl, stats, statsTimer, graph, accum, microtask, inflight,
           startTasks, stopTasks, store, cnt, lastCall, emits, hist, aux>>

\* ---------------------------------------------------------------- utils
framesToMs(frames, rate) == (frames * 1000) \div rate

\* e.inputBuffer.getChannelData(c)[i] for frame n of the device stream
DeviceSample(c, n) == IF c = 0 THEN 2 * n ELSE 2 * n + 2

\* mono[i] = (ch0[i] + ch1[i]) * 0.5, ch1 = ch0 for a mono source
Downmix(n) ==
  LET ch0 == DeviceSample(0, n)
      ch1 == IF inChannels > 1 THEN DeviceSample(1, n) ELSE ch0
  IN  (ch0 + ch1) \div 2

MonoBlock(first) == [i \in 1..BlockLen |-> Downmix(first + i)]

appendToAccum(acc, monoChunk) == acc \o monoChunk

NoRow == [id |-> NullId, createdAt |-> 0, status |-> "none", durationMs |-> 0]
NoManifest == [recordingId |-> NullId, format |-> "none", channels |-> 0, sampleRate |-> 0]

\* objectStore('chunks').put(row): insert, or replace the row with that key
putChunk(table, row) ==
  {c \in table : ~(c.recordingId = row.recordingId /\ c.index = row.index)} \cup {row}

HasChunk(table, id, idx) == \E c \in table : c.recordingId = id /\ c.index = idx

ChunkRow(req) ==
  [recordingId |-> req.recordingId, index |-> req.index, blob |-> req.blob,
   size |-> req.size, startMs |-> req.startMs, endMs |-> req.endMs]

\* FullSliceReq with index: ++chunkIndex in place of chunkIndex++
FullSliceReq_preIncrement(acc, idx, id) ==
  [recordingId |-> id, index |-> idx + 1,
   blob    |-> SubSeq(acc, 1, sliceFramesTarget),
   size    |-> BytesPerFrame * sliceFramesTarget,
   startMs |-> framesToMs(idx * sliceFramesTarget, sampleRate),
   endMs   |-> framesToMs((idx + 1) * sliceFramesTarget, sampleRate),
   owner   |-> 0]

\* FullSliceReq whose startMs and endMs are read after chunkIndex++
FullSliceReq_timingAfterIncrement(acc, idx, id) ==
  [recordingId |-> id, index |-> idx,
   blob    |-> SubSeq(acc, 1, sliceFramesTarget),
   size    |-> BytesPerFrame * sliceFramesTarget,
   startMs |-> framesToMs((idx + 1) * sliceFramesTarget, sampleRate),
   endMs   |-> framesToMs((idx + 2) * sliceFramesTarget, sampleRate),
   owner   |-> 0]

\* the request flushFullSlices builds for the front slice of acc
FullSliceReq(acc, idx, id) ==
  [recordingId |-> id, index |-> idx,
   blob    |-> SubSeq(acc, 1, sliceFramesTarget),
   size    |-> BytesPerFrame * sliceFramesTarget,
   startMs |-> framesToMs(idx * sliceFramesTarget, sampleRate),
   endMs   |-> framesToMs((idx + 1) * sliceFramesTarget, sampleRate),
   owner   |-> 0]

\* RemainderReq with a copy that is one frame short
RemainderReq_dropLast(acc, idx, id, tid) ==
  [recordingId |-> id, index |-> idx,
   blob    |-> SubSeq(acc, 1, Len(acc) - 1),
   size    |-> BytesPerFrame * (Len(acc) - 1),
   startMs |-> framesToMs(idx * sliceFramesTarget, sampleRate),
   endMs   |-> framesToMs(idx * sliceFramesTarget, sampleRate) + framesToMs(Len(acc) - 1, sampleRate),
   owner   |-> tid]

\* the request flushRemainderOnStop builds for the whole of acc
RemainderReq(acc, idx, id, tid) ==
  [recordingId |-> id, index |-> idx,
   blob    |-> acc,
   size    |-> BytesPerFrame * Len(acc),
   startMs |-> framesToMs(idx * sliceFramesTarget, sampleRate),
   endMs   |-> framesToMs(idx * sliceFramesTarget, sampleRate) + framesToMs(Len(acc), sampleRate),
   owner   |-> tid]

\* one pass of flushFullSlices from the while test to the await of putChunk;
\* putChunk with a null recordingId throws before a transaction is queued
flushFullSlices(acc, idx, id, q) ==
  IF Len(acc) >= sliceFramesTarget
  THEN [accum      |-> SubSeq(acc, sliceFramesTarget + 1, Len(acc)),
        chunkIndex |-> idx + 1,
        inflight   |-> IF id = NullId THEN q ELSE Append(q, FullSliceReq(acc, idx, id))]
  ELSE [accum |-> acc, chunkIndex |-> idx, inflight |-> q]

\* the status checks that open the four API calls
\* CanStart that forgets the paused state
CanStart_onlyRecording(s) == ~(s = "recording")
CanStart(s)  == ~(s = "recording" \/ s = "paused")
\* CanPause that only refuses when idle
CanPause_notIdle(s) == s # "idle"
CanPause(s)  == s = "recording"
CanResume(s) == s = "paused"
CanStop(s)   == s = "recording" \/ s = "paused"

\* effectiveDuration that leaves the paused time in
effectiveDuration_wallClock(t, s, p) == t - s

\* const effectiveDuration = Date.now() - startTs - pausedAccum
effectiveDuration(t, s, p) == t - s - p

NoEmit == emitStatus' = <<>> /\ emitChunk' = <<>> /\ emitStats' = <<>>

Keys(q) == {<<q[i].recordingId, q[i].index>> : i \in 1..Len(q)}

\* a stop() call goes on as the tasks in next, or has rejected when there are none
StopGoesOn(tid, next) ==
  [stopOutcome EXCEPT ![tid] = IF next = {} THEN "rejected" ELSE "pending"]

NoCall == [op |-> "none", id |-> NullId, index |-> 0, blob |-> <<>>, existed |-> FALSE,
           result |-> "none"]
NoDelete == [called |-> FALSE, had |-> {}]

NoWav == [byteLength |-> 0, numChannels |-> 0, sampleRate |-> 0, byteRate |-> 0,
          blockAlign |-> 0, bitsPerSample |-> 0, dataSize |-> 0, samples |-> <<>>]
NoArtifact == [kind |-> "none", wav |-> NoWav, blob |-> <<>>]
NoMediaSource == [readyState |-> "closed", updating |-> FALSE, appended |-> <<>>,
                  acked |-> 0, endOfStream |-> "none", error |-> FALSE, failed |-> {}]
NoJob == [op |-> "none", pc |-> "done", id |-> NullId, prefer |-> "none",
          hasMediaSource |-> FALSE, supported |-> FALSE,
          manifest |-> NoManifest, list |-> <<>>, k |-> 0, result |-> "none"]

\* ----------------------------------------------------------------- Init
NoRecorder == [state |-> "none", queue |-> <<>>]
NoSession == [began |-> 0, paused |-> 0, openAt |-> 0]

createRecorderBox(cs, rate, target) ==
  /\ chunkSeconds = cs
  /\ reported = FALSE
  /\ now = 1
  /\ status = "idle" /\ currentId = NullId /\ chunkIndex = 0
  /\ startTs = 0 /\ pausedAccum = 0 /\ pauseTs = 0 /\ isPaused = FALSE
  /\ stats = [durationMs |-> 0, chunkCount |-> 0, bytes |-> 0]
  /\ statsTimer = [handle |-> 0, running |-> {}]
  /\ stream = 0 /\ proc = 0 /\ live = {}
  /\ sampleRate = rate /\ sliceFramesTarget = target
  /\ accum = <<>>
  /\ microtask = FALSE
  /\ inflight = <<>>
  /\ startTasks = {} /\ stopTasks = {}
  /\ recordings = [i \in Ids |-> NoRow]
  /\ manifests = [i \in Ids |-> NoManifest]
  /\ chunks = {}
  /\ nextFrame = 0 /\ nBlocks = 0 /\ nStarts = 0 /\ nStops = 0
  /\ lastCall = "none"
  /\ emitStatus = <<>> /\ emitChunk = <<>> /\ emitStats = <<>>
  /\ accepted = [i \in Ids |-> <<>>]
  /\ stopped = {}
  /\ durLog = [i \in Ids |-> <<>>]
  /\ readyLog = [i \in Ids |-> 0]
  /\ spanSum = 0 /\ spanStart = 0
  /\ dupPuts = 0
  /\ tornDownWith = {}
  /\ stopOutcome = [i \in 1..MaxStops |-> "none"]
  /\ startErr = {}
  /\ consoleLog = <<>>
  /\ storeCall = NoCall
  /\ delTasks = {}
  /\ delLog = [i \in Ids |-> NoDelete]
  /\ playJob = NoJob
  /\ mediaSource = NoMediaSource
  /\ rendered = NoArtifact
  /\ mediaRecorder = 0
  /\ mrObj = [i \in Ids |-> NoRecorder]
  /\ sessLog = [i \in Ids |-> NoSession]
  /\ mrLog = {}

\* the recorder boot.js creates, frames at the reduced scale
Init == createRecorderBox(DefaultChunkMs, ctxSampleRate, SliceFrames)

\* ------------------------------------------------------------ the clock
Tick ==
  /\ ~microtask
  /\ now <= MaxTime
  /\ now' = now + 1
  /\ lastCall' = "none"
  /\ NoEmit
  /\ UNCHANGED <<aux, ctl, stats, statsTimer, graph, accum, microtask, inflight,
                 startTasks, stopTasks, store, cnt, hist>>

\* a stats tick that also reports while paused
startStats_whilePaused ==
  /\ ~microtask
  /\ statsTimer.running # {}
  /\ lastCall' = "none"
  /\ IF status = "recording" \/ status = "paused"
     THEN /\ stats' = [stats EXCEPT !.durationMs = now - startTs - pausedAccum]
          /\ emitStats' = <<stats'>>
          /\ reported' = TRUE
     ELSE /\ UNCHANGED <<stats, reported>>
          /\ emitStats' = <<>>
  /\ emitStatus' = <<>> /\ emitChunk' = <<>>
  /\ UNCHANGED <<stopOutcome, fails, storeCall, delTasks, delLog, play, opts, mr,
                 now, ctl, statsTimer, graph, accum, microtask, inflight,
                 startTasks, stopTasks, store, cnt, hist>>

\* the setInterval callback of startStats
startStats ==
  /\ ~microtask
  /\ statsTimer.running # {}
  /\ lastCall' = "none"
  /\ IF status = "recording"
     THEN /\ stats' = [stats EXCEPT !.durationMs = now - startTs - pausedAccum]
          /\ emitStats' = <<stats'>>
          /\ reported' = TRUE
     ELSE /\ UNCHANGED <<stats, reported>>
          /\ emitStats' = <<>>
  /\ emitStatus' = <<>> /\ emitChunk' = <<>>
  /\ UNCHANGED <<stopOutcome, fails, storeCall, delTasks, delLog, play, opts, mr,
                 now, ctl, statsTimer, graph, accum, microtask, inflight,
                 startTasks, stopTasks, store, cnt, hist>>

\* ------------------------------------------------------ capture callback
onaudioprocess ==
  /\ ~microtask
  /\ live # {}
  /\ lastCall' = "none"
  /\ NoEmit
  /\ IF status # "recording" \/ isPaused
     THEN UNCHANGED <<accum, microtask, accepted, nextFrame, nBlocks>>
     ELSE /\ nBlocks < MaxBlocks
          /\ nBlocks' = nBlocks + 1
          /\ nextFrame' = nextFrame + BlockLen
          /\ accum' = appendToAccum(accum, MonoBlock(nextFrame))
          /\ microtask' = TRUE
          /\ accepted' = IF currentId = NullId THEN accepted
                         ELSE [accepted EXCEPT ![currentId] = @ \o MonoBlock(nextFrame)]
  /\ UNCHANGED <<aux, now, ctl, stats, statsTimer, graph, inflight, startTasks, stopTasks,
                 store, nStarts, nStops, stopped, durLog, readyLog, spanSum,
                 spanStart, dupPuts, tornDownWith>>

\* Promise.resolve().then(flushFullSlices): runs before any other task
FlushMicrotask ==
  /\ microtask
  /\ microtask' = FALSE
  /\ LET r == flushFullSlices(accum, chunkIndex, currentId, inflight)
     IN  /\ accum' = r.accum
         /\ chunkIndex' = r.chunkIndex
         /\ inflight' = r.inflight
  /\ lastCall' = "none"
  /\ NoEmit
  /\ UNCHANGED <<aux, now, status, currentId, startTs, pausedAccum, pauseTs, isPaused,
                 stats, statsTimer, graph, startTasks, stopTasks, store, cnt, hist>>

\* the putChunk awaited by flushFullSlices completes; the loop goes on
CompleteFlushPut ==
  /\ ~microtask
  /\ inflight # <<>>
  /\ Head(inflight).owner = 0
  /\ LET req == Head(inflight)
         r   == flushFullSlices(accum, chunkIndex, currentId, Tail(inflight))
     IN  /\ chunks' = putChunk(chunks, ChunkRow(req))
         /\ dupPuts' = IF HasChunk(chunks, req.recordingId, req.index) /\ dupPuts < 2
                       THEN dupPuts + 1 ELSE dupPuts
         /\ stats' = [stats EXCEPT !.chunkCount = @ + 1, !.bytes = @ + req.size]
         /\ emitChunk' = <<[size |-> req.size, index |-> chunkIndex - 1]>>
         /\ accum' = r.accum
         /\ chunkIndex' = r.chunkIndex
         /\ inflight' = r.inflight
  /\ lastCall' = "none"
  /\ emitStatus' = <<>> /\ emitStats' = <<>>
  /\ UNCHANGED <<aux, now, status, currentId, startTs, pausedAccum, pauseTs, isPaused,
                 statsTimer, graph, microtask, startTasks, stopTasks, recordings,
                 manifests, cnt, accepted, stopped, durLog, readyLog, spanSum,
                 spanStart, tornDownWith>>

\* ------------------------------------------------------------ pause/resume
pause ==
  /\ ~microtask
  /\ IF ~CanPause(status)
     THEN /\ UNCHANGED <<status, isPaused, pauseTs, spanStart>>
          /\ emitStatus' = <<>>
          /\ lastCall' = "pause: no-op"
     ELSE /\ lastCall' = "pause"
          /\ isPaused' = TRUE
          /\ pauseTs' = now
          /\ spanStart' = now
          /\ status' = "paused"
          /\ emitStatus' = <<"paused">>
  /\ emitChunk' = <<>> /\ emitStats' = <<>>
  /\ UNCHANGED <<aux, now, currentId, chunkIndex, startTs, pausedAccum, stats, statsTimer,
                 graph, accum, microtask, inflight, startTasks, stopTasks, store, cnt,
                 accepted, stopped, durLog, readyLog, spanSum, dupPuts, tornDownWith>>

resume ==
  /\ ~microtask
  /\ IF ~CanResume(status)
     THEN /\ UNCHANGED <<status, isPaused, pauseTs, pausedAccum, spanSum, spanStart>>
          /\ emitStatus' = <<>>
          /\ lastCall' = "resume: no-op"
     ELSE /\ lastCall' = "resume"
          /\ pausedAccum' = IF pauseTs # 0 THEN pausedAccum + (now - pauseTs) ELSE pausedAccum
          /\ spanSum' = spanSum + (now - spanStart)
          /\ spanStart' = 0
          /\ pauseTs' = 0
          /\ isPaused' = FALSE
          /\ status' = "recording"
          /\ emitStatus' = <<"recording">>
  /\ emitChunk' = <<>> /\ emitStats' = <<>>
  /\ UNCHANGED <<aux, now, currentId, chunkIndex, startTs, stats, statsTimer,
                 graph, accum, microtask, inflight, startTasks, stopTasks, store, cnt,
                 accepted, stopped, durLog, readyLog, dupPuts, tornDownWith>>

\* ------------------------------------------------------------------ start
StartTask(sid) == [sid |-> sid, pc |-> "acquire", rec |-> NoRow, man |-> NoManifest]

\* start() up to the await of getUserMedia
start ==
  /\ ~microtask
  /\ NoEmit
  /\ IF ~CanStart(status)
     THEN /\ UNCHANGED <<startTasks, nStarts>>
          /\ lastCall' = "start: no-op"
     ELSE /\ lastCall' = "start"
          /\ nStarts < MaxSessions /\ nStarts + nStops < MaxCalls
          /\ nStarts' = nStarts + 1
          /\ startTasks' = startTasks \cup {StartTask(nStarts + 1)}
  /\ UNCHANGED <<aux, now, ctl, stats, statsTimer, graph, accum, microtask, inflight,
                 stopTasks, store, nextFrame, nBlocks, nStops, hist>>

\* getUserMedia resolves: the graph is built and beginSession runs up to
\* the await of putRecording
StartGetUserMediaDoneAt(t, rate, target) ==
  /\ ~microtask
  /\ t \in startTasks /\ t.pc = "acquire"
  /\ stream' = t.sid /\ proc' = t.sid
  /\ live' = live \cup {t.sid}
  /\ sampleRate' = rate
  /\ sliceFramesTarget' = target
  /\ currentId' = t.sid
  /\ startTs' = now
  /\ pausedAccum' = 0
  /\ chunkIndex' = 0
  /\ stats' = [durationMs |-> 0, chunkCount |-> 0, bytes |-> 0]
  /\ accum' = <<>>
  /\ isPaused' = FALSE
  /\ spanSum' = 0
  /\ reported' = FALSE
  /\ startTasks' = (startTasks \ {t}) \cup
       {[t EXCEPT !.pc = "putRecording",
                  !.rec = [id |-> t.sid, createdAt |-> now,
                           status |-> "recording", durationMs |-> 0]]}
  /\ lastCall' = "none"
  /\ NoEmit
  /\ UNCHANGED <<stopOutcome, fails, storeCall, delTasks, delLog, play, opts, mr,
                 now, status, pauseTs, statsTimer, microtask, inflight, stopTasks,
                 store, cnt, accepted, stopped, durLog, readyLog, spanStart,
                 dupPuts, tornDownWith>>

\* the same at the scale of the model: ctx.sampleRate is ctxSampleRate and
\* the target it gives is SliceFrames
StartGetUserMediaDone(t) == StartGetUserMediaDoneAt(t, ctxSampleRate, SliceFrames)

\* the errors getUserMedia rejects with
AcquireErrors == {"NotAllowedError", "NotFoundError"}

\* a start() whose catch calls setStatus('idle') before it rethrows
StartGetUserMediaFailed_setStatus(t, err) ==
  /\ ~microtask
  /\ t \in startTasks /\ t.pc = "acquire"
  /\ startTasks' = startTasks \ {t}
  /\ startErr' = startErr \cup {[sid |-> t.sid, error |-> err]}
  /\ status' = "idle"
  /\ emitStatus' = <<"idle">>
  /\ emitChunk' = <<>> /\ emitStats' = <<>>
  /\ lastCall' = "none"
  /\ UNCHANGED <<now, currentId, chunkIndex, startTs, pausedAccum, pauseTs, isPaused,
                 stats, statsTimer, graph, accum, microtask, inflight, stopTasks,
                 store, cnt, hist, stopOutcome, consoleLog, lib>>

\* getUserMedia rejects: the await in start() throws before anything was
\* assigned, and start() rejects with that error
StartGetUserMediaFailed(t, err) ==
  /\ ~microtask
  /\ t \in startTasks /\ t.pc = "acquire"
  /\ startTasks' = startTasks \ {t}
  /\ startErr' = startErr \cup {[sid |-> t.sid, error |-> err]}
  /\ lastCall' = "none"
  /\ NoEmit
  /\ UNCHANGED <<now, ctl, stats, statsTimer, graph, accum, microtask, inflight,
                 stopTasks, store, cnt, hist, stopOutcome, consoleLog, lib>>

\* putRecording completes; setManifest(currentId, ...) is issued.  With a
\* null currentId the put on 'manifests' throws and start() rejects.
StartPutRecordingDone(t) ==
  /\ ~microtask
  /\ t \in startTasks /\ t.pc = "putRecording"
  /\ recordings' = [recordings EXCEPT ![t.rec.id] = t.rec]
  /\ startTasks' =
       IF currentId = NullId THEN startTasks \ {t}
       ELSE (startTasks \ {t}) \cup
            {[t EXCEPT !.pc = "setManifest",
                       !.man = [recordingId |-> currentId, format |-> "pcm-f32",
                                channels |-> 1, sampleRate |-> sampleRate]]}
  /\ lastCall' = "none"
  /\ NoEmit
  /\ UNCHANGED <<aux, now, ctl, stats, statsTimer, graph, accum, microtask, inflight,
                 stopTasks, manifests, chunks, cnt, hist>>

\* setManifest completes; setStatus('recording'), startStats()
StartSetManifestDone(t) ==
  /\ ~microtask
  /\ t \in startTasks /\ t.pc = "setManifest"
  /\ manifests' = [manifests EXCEPT ![t.man.recordingId] = t.man]
  /\ status' = "recording"
  /\ emitStatus' = <<"recording">>
  /\ statsTimer' = [handle |-> t.sid, running |-> statsTimer.running \cup {t.sid}]
  /\ startTasks' = startTasks \ {t}
  /\ lastCall' = "none"
  /\ emitChunk' = <<>> /\ emitStats' = <<>>
  /\ UNCHANGED <<aux, now, currentId, chunkIndex, startTs, pausedAccum, pauseTs, isPaused,
                 stats, graph, accum, microtask, inflight, stopTasks, recordings,
                 chunks, cnt, hist>>

\* ------------------------------------------------------------------- stop
StopTask(tid) ==
  [tid |-> tid, pc |-> "flushRemainder", id |-> NullId, dur |-> 0, row |-> NoRow,
   \* what the properties need to know about this call
   from |-> status, stopTs |-> now, openStart |-> spanStart,
   pending |-> Keys(SelectSeq(inflight, LAMBDA q : q.owner = 0)),
   remId |-> NullId, remIdx |-> 0, remBlob |-> <<>>,
   finTs |-> 0, finStart |-> 0, finSpans |-> 0]

\* finalizeSession up to the await of getRecording inside setDuration;
\* getRecording(null) throws, finalizeSession and stop() reject
finalizeSession(t) ==
  IF currentId = NullId THEN {}
  ELSE {[t EXCEPT !.pc = "setDurationGet", !.id = currentId,
                  !.dur = effectiveDuration(now, startTs, pausedAccum),
                  !.finTs = now, !.finStart = startTs, !.finSpans = spanSum]}

\* stop() up to its first await: flushRemainderOnStop issues the putChunk of
\* the remainder, or returns at once on an empty buffer and finalizeSession
\* starts
stop ==
  /\ ~microtask
  /\ NoEmit
  /\ IF ~CanStop(status)
     THEN /\ UNCHANGED <<accum, chunkIndex, inflight, stopTasks, nStops, stopOutcome>>
          /\ lastCall' = "stop: no-op"
     ELSE /\ lastCall' = "stop"
          /\ nStops < MaxStops /\ nStarts + nStops < MaxCalls
          /\ nStops' = nStops + 1
          /\ LET t == StopTask(nStops + 1)
             IN  IF accum = <<>>
                 THEN /\ stopTasks' = stopTasks \cup finalizeSession(t)
                      /\ stopOutcome' = StopGoesOn(t.tid, finalizeSession(t))
                      /\ UNCHANGED <<accum, chunkIndex, inflight>>
                 ELSE /\ accum' = <<>>
                      /\ chunkIndex' = chunkIndex + 1
                      /\ IF currentId = NullId
                         THEN /\ UNCHANGED <<inflight, stopTasks>>
                              /\ stopOutcome' = StopGoesOn(t.tid, {})
                         ELSE /\ inflight' = Append(inflight,
                                     RemainderReq(accum, chunkIndex, currentId, t.tid))
                              /\ stopTasks' = stopTasks \cup
                                     {[t EXCEPT !.remId = currentId, !.remIdx = chunkIndex,
                                                !.remBlob = accum]}
                              /\ stopOutcome' = StopGoesOn(t.tid, {t})
  /\ UNCHANGED <<fails, lib, now, status, currentId, startTs, pausedAccum, pauseTs, isPaused,
                 stats, statsTimer, graph, microtask, startTasks, store, nextFrame,
                 nBlocks, nStarts, hist>>

\* the putChunk awaited by flushRemainderOnStop completes; stop() goes on to
\* finalizeSession
CompleteRemainderPut ==
  /\ ~microtask
  /\ inflight # <<>>
  /\ Head(inflight).owner # 0
  /\ LET req == Head(inflight)
         t   == CHOOSE x \in stopTasks : x.tid = req.owner
     IN  /\ chunks' = putChunk(chunks, ChunkRow(req))
         /\ dupPuts' = IF HasChunk(chunks, req.recordingId, req.index) /\ dupPuts < 2
                       THEN dupPuts + 1 ELSE dupPuts
         /\ stats' = [stats EXCEPT !.chunkCount = @ + 1, !.bytes = @ + req.size]
         /\ emitChunk' = <<[size |-> req.size, index |-> chunkIndex - 1]>>
         /\ inflight' = Tail(inflight)
         /\ stopTasks' = (stopTasks \ {t}) \cup finalizeSession(t)
         /\ stopOutcome' = StopGoesOn(t.tid, finalizeSession(t))
  /\ lastCall' = "none"
  /\ emitStatus' = <<>> /\ emitStats' = <<>>
  /\ UNCHANGED <<fails, lib, now, ctl, statsTimer, graph, accum, microtask, startTasks,
                 recordings, manifests, cnt, accepted, stopped, durLog, readyLog,
                 spanSum, spanStart, tornDownWith>>

\* markStatus(currentId, 'ready') up to the await of getRecording
markStatus(t) ==
  IF currentId = NullId THEN {}
  ELSE {[t EXCEPT !.pc = "markStatusGet", !.id = currentId]}

\* setDuration: getRecording(id) completes
SetDurationGetDone(t) ==
  /\ ~microtask
  /\ t \in stopTasks /\ t.pc = "setDurationGet"
  /\ stopTasks' =
       IF recordings[t.id] = NoRow
       THEN (stopTasks \ {t}) \cup markStatus(t)
       ELSE (stopTasks \ {t}) \cup
            {[t EXCEPT !.pc = "setDurationPut",
                       !.row = [recordings[t.id] EXCEPT !.durationMs = t.dur]]}
  /\ stopOutcome' = IF recordings[t.id] = NoRow THEN StopGoesOn(t.tid, markStatus(t))
                    ELSE stopOutcome
  /\ lastCall' = "none"
  /\ NoEmit
  /\ UNCHANGED <<fails, lib, now, ctl, stats, statsTimer, graph, accum, microtask, inflight,
                 startTasks, store, cnt, hist>>

\* setDuration: putRecording(r) completes; markStatus is called
SetDurationPutDone(t) ==
  /\ ~microtask
  /\ t \in stopTasks /\ t.pc = "setDurationPut"
  /\ recordings' = [recordings EXCEPT ![t.id] = t.row]
  /\ durLog' = [durLog EXCEPT ![t.id] = Append(@,
                   [dur |-> t.row.durationMs, from |-> t.from, stopTs |-> t.stopTs,
                    openStart |-> t.openStart, finTs |-> t.finTs,
                    finStart |-> t.finStart, finSpans |-> t.finSpans,
                    remLen |-> Len(t.remBlob),
                    remStored |-> \E c \in chunks : /\ c.recordingId = t.remId
                                                    /\ c.index = t.remIdx
                                                    /\ c.blob = t.remBlob])]
  /\ stopTasks' = (stopTasks \ {t}) \cup markStatus(t)
  /\ stopOutcome' = StopGoesOn(t.tid, markStatus(t))
  /\ lastCall' = "none"
  /\ NoEmit
  /\ UNCHANGED <<fails, lib, now, ctl, stats, statsTimer, graph, accum, microtask, inflight,
                 startTasks, manifests, chunks, cnt, accepted, stopped, readyLog,
                 spanSum, spanStart, dupPuts, tornDownWith>>

\* a teardown that leaves the stats interval running
teardown_noStopStats(t) ==
  /\ status' = "idle"
  /\ emitStatus' = <<"ready", "idle">>
  /\ currentId' = NullId
  /\ live' = live \ {proc, stream}
  /\ stream' = 0 /\ proc' = 0
  /\ stopTasks' = stopTasks \ {t}
  /\ stopOutcome' = [stopOutcome EXCEPT ![t.tid] = "done"]
  /\ stopped' = stopped \cup {t.id}
  /\ tornDownWith' = tornDownWith \cup (t.pending \cap Keys(inflight))
  /\ emitChunk' = <<>> /\ emitStats' = <<>>
  /\ UNCHANGED <<fails, lib, now, chunkIndex, startTs, pausedAccum, pauseTs, isPaused, stats,
                 statsTimer, sampleRate, sliceFramesTarget, accum, microtask, inflight,
                 startTasks, manifests, chunks, cnt, accepted, durLog, spanSum,
                 spanStart, dupPuts>>

\* the end of finalizeSession and of stop(): setStatus('ready'),
\* currentId = null, teardown(), setStatus('idle')
teardown(t) ==
  /\ status' = "idle"
  /\ emitStatus' = <<"ready", "idle">>
  /\ currentId' = NullId
  /\ live' = live \ {proc, stream}
  /\ stream' = 0 /\ proc' = 0
  /\ statsTimer' = [handle |-> 0, running |-> statsTimer.running \ {statsTimer.handle}]
  /\ stopTasks' = stopTasks \ {t}
  /\ stopOutcome' = [stopOutcome EXCEPT ![t.tid] = "done"]
  /\ stopped' = stopped \cup {t.id}
  /\ tornDownWith' = tornDownWith \cup (t.pending \cap Keys(inflight))
  /\ emitChunk' = <<>> /\ emitStats' = <<>>
  /\ UNCHANGED <<fails, lib, now, chunkIndex, startTs, pausedAccum, pauseTs, isPaused, stats,
                 sampleRate, sliceFramesTarget, accum, microtask, inflight,
                 startTasks, manifests, chunks, cnt, accepted, durLog, spanSum,
                 spanStart, dupPuts>>

\* markStatus: getRecording(id) completes
MarkStatusGetDone(t) ==
  /\ ~microtask
  /\ t \in stopTasks /\ t.pc = "markStatusGet"
  /\ lastCall' = "none"
  /\ IF recordings[t.id] = NoRow
     THEN /\ teardown(t)
          /\ UNCHANGED <<recordings, readyLog>>
     ELSE /\ stopTasks' = (stopTasks \ {t}) \cup
               {[t EXCEPT !.pc = "markStatusPut",
                          !.row = [recordings[t.id] EXCEPT !.status = "ready"]]}
          /\ NoEmit
          /\ UNCHANGED <<aux, now, ctl, stats, statsTimer, graph, accum, microtask, inflight,
                         startTasks, store, cnt, hist>>

\* markStatus: putRecording(r) completes; stop() runs to its end
MarkStatusPutDone(t) ==
  /\ ~microtask
  /\ t \in stopTasks /\ t.pc = "markStatusPut"
  /\ recordings' = [recordings EXCEPT ![t.id] = t.row]
  /\ readyLog' = [readyLog EXCEPT ![t.id] = @ + 1]
  /\ lastCall' = "none"
  /\ teardown(t)

\* ------------------------------------------------------------------- Next
\* the steps the event loop takes on its own: completions of awaited
\* requests and the queued microtask
Progress ==
  \/ FlushMicrotask
  \/ CompleteFlushPut
  \/ CompleteRemainderPut
  \/ \E t \in startTasks : StartGetUserMediaDone(t)
  \/ \E t \in startTasks : StartPutRecordingDone(t)
  \/ \E t \in startTasks : StartSetManifestDone(t)
  \/ \E t \in stopTasks : SetDurationGetDone(t)
  \/ \E t \in stopTasks : SetDurationPutDone(t)
  \/ \E t \in stopTasks : MarkStatusGetDone(t)
  \/ \E t \in stopTasks : MarkStatusPutDone(t)

\* API calls that get past their status check
AcceptedStart == status # "recording" /\ status # "paused" /\ start

AcceptedRest ==
  \/ (status = "recording" /\ pause)
  \/ (status = "paused" /\ resume)
  \/ ((status = "recording" \/ status = "paused") /\ stop)

Accepted == AcceptedStart \/ AcceptedRest

\* API calls that return at their status check
Rejected ==
  \/ ((status = "recording" \/ status = "paused") /\ start)
  \/ (status # "recording" /\ pause)
  \/ (status # "paused" /\ resume)
  \/ (status # "recording" /\ status # "paused" /\ stop)

\* segmentation and persistence; the clock stands still
NextSeg == Progress \/ Accepted \/ onaudioprocess

SpecSeg == Init /\ [][NextSeg]_vars

\* sessions that are never paused: start(), audio callbacks and stop()
NextNoPause ==
  \/ Progress
  \/ AcceptedStart
  \/ (CanStop(status) /\ stop)
  \/ onaudioprocess

SpecNoPause == Init /\ [][NextNoPause]_vars

\* the same with the calls that return at their status check
NextCalls == NextSeg \/ Rejected

SpecCalls == Init /\ [][NextCalls]_vars

\* the event loop does not starve a completed request or a queued microtask
SpecLive == SpecSeg /\ WF_vars(Progress)

\* the transaction of a putChunk awaited by flushFullSlices aborts: nothing
\* is stored, the run rejects out of its loop and the .catch of the
\* callback hands the error to console.error
FailFlushPut ==
  /\ ~microtask
  /\ inflight # <<>>
  /\ Head(inflight).owner = 0
  /\ inflight' = Tail(inflight)
  /\ consoleLog' = Append(consoleLog, "flushFullSlices")
  /\ lastCall' = "none"
  /\ NoEmit
  /\ UNCHANGED <<now, ctl, stats, statsTimer, graph, accum, microtask, startTasks,
                 stopTasks, store, cnt, hist, stopOutcome, startErr, lib>>

\* the transaction of the putChunk awaited by flushRemainderOnStop aborts:
\* the .catch in stop() hands the error to console.error and stop() goes on
\* to finalizeSession
FailRemainderPut ==
  /\ ~microtask
  /\ inflight # <<>>
  /\ Head(inflight).owner # 0
  /\ LET t == CHOOSE x \in stopTasks : x.tid = Head(inflight).owner
     IN  /\ stopTasks' = (stopTasks \ {t}) \cup finalizeSession(t)
         /\ stopOutcome' = StopGoesOn(t.tid, finalizeSession(t))
  /\ inflight' = Tail(inflight)
  /\ consoleLog' = Append(consoleLog, "flushRemainderOnStop")
  /\ lastCall' = "none"
  /\ NoEmit
  /\ UNCHANGED <<now, ctl, stats, statsTimer, graph, accum, microtask, startTasks,
                 store, cnt, hist, startErr, lib>>

\* failures of the device and of the store
Failures ==
  \/ \E t \in startTasks : \E err \in AcquireErrors : StartGetUserMediaFailed(t, err)
  \/ FailFlushPut
  \/ FailRemainderPut

NextFail == NextSeg \/ Failures

SpecFail == Init /\ [][NextFail]_vars

\* the transaction of the putRecording or setManifest awaited by
\* beginSession aborts: beginSession and start() reject; start() has no
\* catch, so nothing that was assigned before the await is undone
StartStoreFailed(t) ==
  /\ ~microtask
  /\ t \in startTasks /\ t.pc \in {"putRecording", "setManifest"}
  /\ startTasks' = startTasks \ {t}
  /\ lastCall' = "none"
  /\ NoEmit
  /\ UNCHANGED <<now, ctl, stats, statsTimer, graph, accum, microtask, inflight,
                 stopTasks, store, cnt, hist, aux>>

\* a transaction of setDuration or markStatus (the getRecording or the
\* putRecording) aborts: finalizeSession rejects and so does stop(), before
\* teardown() and setStatus('idle')
StopStoreFailed(t) ==
  /\ ~microtask
  /\ t \in stopTasks
  /\ t.pc \in {"setDurationGet", "setDurationPut", "markStatusGet", "markStatusPut"}
  /\ stopTasks' = stopTasks \ {t}
  /\ stopOutcome' = [stopOutcome EXCEPT ![t.tid] = "rejected"]
  /\ lastCall' = "none"
  /\ NoEmit
  /\ UNCHANGED <<now, ctl, stats, statsTimer, graph, accum, microtask, inflight,
                 startTasks, store, cnt, hist, fails, lib>>

\* failures of the store in the calls awaited by start() and by stop()
StoreFailures ==
  \/ \E t \in startTasks : StartStoreFailed(t)
  \/ \E t \in stopTasks : StopStoreFailed(t)

NextStoreFail == NextFail \/ StoreFailures

SpecStoreFail == Init /\ [][NextStoreFail]_vars

\* ------------------------------------------------- the storage adapter
\* Calls made on the adapter by a caller other than the recorder.  A call
\* that is one transaction is one step, taken when the transaction commits.
SmallBlobs == {<<1>>, <<MaxSample>>}

\* the recordings a direct caller works on
CallerIds == {1}

DirectRow(id, idx, blob) ==
  [recordingId |-> id, index |-> idx, blob |-> blob,
   size |-> BytesPerFrame * Len(blob), startMs |-> 0, endMs |-> 0]

StorePutRecording(id) ==
  /\ recordings' = [recordings EXCEPT ![id] =
        [id |-> id, createdAt |-> now, status |-> "recording", durationMs |-> 0]]
  /\ storeCall' = [op |-> "putRecording", id |-> id, index |-> 0, blob |-> <<>>,
                   existed |-> recordings[id] # NoRow, result |-> "ok"]
  /\ UNCHANGED <<recorder, play, manifests, chunks, delTasks, delLog>>

StoreSetManifest(id, m) ==
  /\ manifests' = [manifests EXCEPT ![id] = [m EXCEPT !.recordingId = id]]
  /\ storeCall' = [op |-> "setManifest", id |-> id, index |-> 0, blob |-> <<>>,
                   existed |-> manifests[id] # NoManifest, result |-> "ok"]
  /\ UNCHANGED <<recorder, play, recordings, chunks, delTasks, delLog>>

\* putChunk resolves when the transaction of its put() has committed
StorePutChunk(row) ==
  /\ chunks' = putChunk(chunks, row)
  /\ storeCall' = [op |-> "putChunk", id |-> row.recordingId, index |-> row.index,
                   blob |-> row.blob,
                   existed |-> HasChunk(chunks, row.recordingId, row.index),
                   result |-> "ok"]
  /\ UNCHANGED <<recorder, play, recordings, manifests, delTasks, delLog>>

PcmManifest(r) == [recordingId |-> NullId, format |-> "pcm-f32", channels |-> 1, sampleRate |-> r]

StoreWrites ==
  \/ \E id \in CallerIds : StorePutRecording(id)
  \/ \E id \in CallerIds : StoreSetManifest(id, PcmManifest(ctxSampleRate))
  \/ \E id \in CallerIds : \E idx \in 0..MaxIndex : \E blob \in SmallBlobs :
        StorePutChunk(DirectRow(id, idx, blob))

\* what the store holds of a recording
Parts(id) ==
  (IF recordings[id] # NoRow THEN {"recording"} ELSE {})
    \cup (IF manifests[id] # NoManifest THEN {"manifest"} ELSE {})
    \cup (IF \E c \in chunks : c.recordingId = id THEN {"chunks"} ELSE {})

\* deleteRecording(id) is called and opens its transaction on 'chunks'
deleteRecording(id) ==
  /\ \A t \in delTasks : t.id # id
  /\ delTasks' = delTasks \cup
       {[id |-> id, pc |-> "chunks",
         \* the readwrite transactions on 'chunks' opened before this one
         ahead |-> {inflight[i] : i \in DOMAIN inflight}]}
  /\ delLog' = [delLog EXCEPT ![id] =
        [called |-> TRUE, had |-> Parts(id)]]
  /\ storeCall' = [op |-> "deleteRecording", id |-> id, index |-> 0, blob |-> <<>>,
                   existed |-> recordings[id] # NoRow, result |-> "pending"]
  /\ UNCHANGED <<recorder, play, store>>

\* the transaction on 'chunks' commits; the one on 'manifests' is opened
DeleteChunksDone(t) ==
  /\ t \in delTasks /\ t.pc = "chunks"
  /\ \A i \in DOMAIN inflight : inflight[i] \notin t.ahead
  /\ chunks' = {c \in chunks : c.recordingId # t.id}
  /\ delTasks' = (delTasks \ {t}) \cup {[t EXCEPT !.pc = "manifest", !.ahead = {}]}
  /\ UNCHANGED <<recorder, play, recordings, manifests, storeCall, delLog>>

\* the transaction on 'manifests' commits; the one on 'recordings' is opened
DeleteManifestDone(t) ==
  /\ t \in delTasks /\ t.pc = "manifest"
  /\ manifests' = [manifests EXCEPT ![t.id] = NoManifest]
  /\ delTasks' = (delTasks \ {t}) \cup
       {[t EXCEPT !.pc = "recording",
                  \* the transactions on 'recordings' opened before this one
                  !.ahead = stopTasks]}
  /\ UNCHANGED <<recorder, play, recordings, chunks, storeCall, delLog>>

\* the transaction on 'recordings' commits; deleteRecording resolves
DeleteRecordingDone(t) ==
  /\ t \in delTasks /\ t.pc = "recording"
  /\ stopTasks \cap t.ahead = {}
  /\ recordings' = [recordings EXCEPT ![t.id] = NoRow]
  /\ delTasks' = delTasks \ {t}
  /\ storeCall' = [op |-> "deleteRecording", id |-> t.id, index |-> 0, blob |-> <<>>,
                   existed |-> recordings[t.id] # NoRow, result |-> "ok"]
  /\ UNCHANGED <<recorder, play, manifests, chunks, delLog>>

\* the open transaction aborts: it removes nothing, txDone rejects and
\* deleteRecording rejects without opening the next one
DeleteFailed(t) ==
  /\ t \in delTasks
  /\ delTasks' = delTasks \ {t}
  /\ storeCall' = [op |-> "deleteRecording", id |-> t.id, index |-> 0, blob |-> <<>>,
                   existed |-> recordings[t.id] # NoRow, result |-> "rejected"]
  /\ UNCHANGED <<recorder, play, store, delLog>>

Deletes ==
  \/ \E id \in CallerIds : deleteRecording(id)
  \/ \E t \in delTasks : DeleteChunksDone(t)
  \/ \E t \in delTasks : DeleteManifestDone(t)
  \/ \E t \in delTasks : DeleteRecordingDone(t)
  \/ \E t \in delTasks : DeleteFailed(t)

NextStore == StoreWrites \/ Deletes

SpecStore == Init /\ [][NextStore]_vars

\* transactions on one object store run in the order they were opened: a
\* putChunk opened behind the chunk transaction of a deleteRecording
\* commits after it, and so does a getRecording or putRecording opened
\* behind its transaction on 'recordings'
PutCommitsNext ==
  \A t \in delTasks : t.pc = "chunks" => (inflight # <<>> /\ Head(inflight) \in t.ahead)

RowTxNext(x) == \A t \in delTasks : t.pc = "recording" => x \in t.ahead

\* one recorder session, and one deleteRecording of the library on the same
\* store while the session records or finalizes
NextDelete ==
  \/ nStarts < 1 /\ AcceptedStart
  \/ AcceptedRest
  \/ onaudioprocess
  \/ FlushMicrotask
  \/ PutCommitsNext /\ CompleteFlushPut
  \/ PutCommitsNext /\ CompleteRemainderPut
  \/ \E t \in startTasks : StartGetUserMediaDone(t)
  \/ \E t \in startTasks : StartPutRecordingDone(t)
  \/ \E t \in startTasks : StartSetManifestDone(t)
  \/ \E t \in stopTasks : RowTxNext(t) /\ SetDurationGetDone(t)
  \/ \E t \in stopTasks : RowTxNext(t) /\ SetDurationPutDone(t)
  \/ \E t \in stopTasks : RowTxNext(t) /\ MarkStatusGetDone(t)
  \/ \E t \in stopTasks : RowTxNext(t) /\ MarkStatusPutDone(t)
  \/ \E id \in CallerIds :
        /\ currentId = id /\ CanStop(status) /\ ~delLog[id].called
        /\ deleteRecording(id)
  \/ \E t \in delTasks : DeleteChunksDone(t)
  \/ \E t \in delTasks : DeleteManifestDone(t)
  \/ \E t \in delTasks : DeleteRecordingDone(t)
  \/ \E t \in delTasks : DeleteFailed(t)

SpecDelete == Init /\ [][NextDelete]_vars

\* ------------------------------------------------------ reconstruction
\* store.getAll() filtered to the recording and sorted by index
RECURSIVE SortByIndex(_)
SortByIndex(S) ==
  IF S = {} THEN <<>>
  ELSE LET m == CHOOSE c \in S : \A d \in S : c.index <= d.index
       IN  <<m>> \o SortByIndex(S \ {m})

getChunksWithTiming(table, id) ==
  LET rows == SortByIndex({c \in table : c.recordingId = id})
  IN  [i \in 1..Len(rows) |->
         [blob |-> rows[i].blob, size |-> rows[i].size, startMs |-> rows[i].startMs,
          endMs |-> rows[i].endMs, index |-> rows[i].index]]

\* the payloads of a chunk list, one after the other
RECURSIVE ConcatBlobs(_)
ConcatBlobs(list) ==
  IF list = <<>> THEN <<>> ELSE Head(list).blob \o ConcatBlobs(Tail(list))

\* Math.max(-1, Math.min(1, float32[i]))
Clamp(x) == IF x < -SampleUnit THEN -SampleUnit ELSE IF x > SampleUnit THEN SampleUnit ELSE x

\* the integer setInt16 stores for the quotient n / d: the fraction is dropped
Trunc(n, d) == IF n < 0 THEN -((-n) \div d) ELSE n \div d

\* view.setInt16(offset, s < 0 ? s * 0x8000 : s * 0x7FFF, true)
ToInt16(x) ==
  LET s == Clamp(x)
  IN  IF s < 0 THEN Trunc(s * Int16Neg, SampleUnit) ELSE Trunc(s * Int16Pos, SampleUnit)

\* a pcm16Wav that sizes the data for 4-byte samples
pcm16Wav_float32Size(float32, rate) ==
  LET numChannels == 1
      bytesPerSample == 4
      blockAlign == numChannels * bytesPerSample
      byteRate == rate * blockAlign
      dataSize == Len(float32) * bytesPerSample
  IN  [byteLength |-> WavHeaderBytes + dataSize, numChannels |-> numChannels,
       sampleRate |-> rate, byteRate |-> byteRate,
       blockAlign |-> blockAlign % (2^16), bitsPerSample |-> 16,
       dataSize |-> dataSize,
       samples |-> [i \in 1..Len(float32) |-> ToInt16(float32[i])]]

\* the header fields and the samples pcm16Wav writes into its buffer; the
\* 32-bit fields hold values far below 2^32 and are kept as they are
pcm16Wav(float32, rate) ==
  LET numChannels == 1
      bytesPerSample == 2
      blockAlign == numChannels * bytesPerSample
      byteRate == rate * blockAlign
      dataSize == Len(float32) * bytesPerSample
  IN  [byteLength |-> WavHeaderBytes + dataSize, numChannels |-> numChannels,
       sampleRate |-> rate, byteRate |-> byteRate,
       blockAlign |-> blockAlign % (2^16), bitsPerSample |-> 16,
       dataSize |-> dataSize,
       samples |-> [i \in 1..Len(float32) |-> ToInt16(float32[i])]]

\* player: the Float32 arrays of the chunks, concatenated and converted
buildWavUrlFromPCM(list, rate) == pcm16Wav(ConcatBlobs(list), rate)

\* harness: the same assembly for the download
assembleWavUrl(list, rate) == pcm16Wav(ConcatBlobs(list), rate)

\* manifest?.sampleRate || 48000
RateOf(m) == IF m.sampleRate = 0 THEN DefaultRate ELSE m.sampleRate

\* new Blob(chunks.map(c => c.blob), { type })
Concatenated(list) == [NoArtifact EXCEPT !.kind = "concat", !.blob = ConcatBlobs(list)]

others == <<recorder, store, storeCall, delTasks, delLog>>

\* the library as earlier sessions left it, written before any
\* reconstruction is asked for
PlayBlobs == {<<-MaxSample, 1>>, <<MaxSample>>, <<-1>>}
Rates == {ctxSampleRate, DefaultRate}
AdapterManifest == [recordingId |-> NullId, format |-> "undefined", channels |-> 0, sampleRate |-> 0]

LibrarySetManifest(id, m) ==
  /\ playJob.op = "none"
  /\ manifests' = [manifests EXCEPT ![id] = [m EXCEPT !.recordingId = id]]
  /\ UNCHANGED <<recorder, recordings, chunks, storeCall, delTasks, delLog, play>>

LibraryPutChunk(row) ==
  /\ playJob.op = "none"
  /\ chunks' = putChunk(chunks, row)
  /\ UNCHANGED <<recorder, recordings, manifests, storeCall, delTasks, delLog, play>>

Library ==
  \/ \E id \in CallerIds : \E r \in Rates : LibrarySetManifest(id, PcmManifest(r))
  \/ \E id \in CallerIds : LibrarySetManifest(id, AdapterManifest)
  \/ \E id \in CallerIds : \E idx \in 0..MaxIndex : \E blob \in PlayBlobs :
        LibraryPutChunk(DirectRow(id, idx, blob))

\* playInto(detailEl, recordingId, prefer) up to the await of getManifest;
\* hasMS is window.MediaSource, supp whether isTypeSupported accepts one
\* of the candidate types
playInto(id, prefer, hasMS, supp) ==
  /\ playJob.pc = "done"
  /\ playJob' = [NoJob EXCEPT !.op = "play", !.pc = "getManifest", !.id = id,
                              !.prefer = prefer, !.hasMediaSource = hasMS,
                              !.supported = hasMS /\ supp]
  /\ mediaSource' = NoMediaSource
  /\ rendered' = NoArtifact
  /\ UNCHANGED others

\* the click handler of the Export button up to the await of getManifest
exportClick(id) ==
  /\ playJob.pc = "done"
  /\ playJob' = [NoJob EXCEPT !.op = "export", !.pc = "getManifest", !.id = id]
  /\ mediaSource' = NoMediaSource
  /\ rendered' = NoArtifact
  /\ UNCHANGED others

\* getManifest resolves; getChunksWithTiming is called
GetManifestDone ==
  /\ playJob.pc = "getManifest"
  /\ playJob' = [playJob EXCEPT !.pc = "getChunks", !.manifest = manifests[playJob.id]]
  /\ UNCHANGED <<others, mediaSource, rendered>>

\* playInto: getChunksWithTiming resolves; an empty list throws, a PCM
\* recording is assembled to WAV and rendered, any other goes on to
\* getRecording
PlayGetChunksDone ==
  /\ playJob.op = "play" /\ playJob.pc = "getChunks"
  /\ LET list == getChunksWithTiming(chunks, playJob.id)
     IN  IF Len(list) = 0
         THEN /\ playJob' = [playJob EXCEPT !.pc = "done", !.list = list,
                                            !.result = "No chunks to play"]
              /\ UNCHANGED rendered
         ELSE IF playJob.manifest.format = "pcm-f32"
         THEN /\ playJob' = [playJob EXCEPT !.pc = "done", !.list = list, !.result = "ok"]
              /\ rendered' = [NoArtifact EXCEPT !.kind = "wav",
                                !.wav = buildWavUrlFromPCM(list, RateOf(playJob.manifest))]
         ELSE /\ playJob' = [playJob EXCEPT !.pc = "getRecording", !.list = list]
              /\ UNCHANGED rendered
  /\ UNCHANGED <<others, mediaSource>>

\* export: getChunksWithTiming resolves and the download is built
ExportGetChunksDone ==
  /\ playJob.op = "export" /\ playJob.pc = "getChunks"
  /\ LET list == getChunksWithTiming(chunks, playJob.id)
     IN  /\ playJob' = [playJob EXCEPT !.pc = "done", !.list = list, !.result = "ok"]
         /\ rendered' =
              IF playJob.manifest.format = "pcm-f32"
              THEN [NoArtifact EXCEPT !.kind = "download wav",
                      !.wav = assembleWavUrl(list, RateOf(playJob.manifest))]
              ELSE [NoArtifact EXCEPT !.kind = "download", !.blob = ConcatBlobs(list)]
  /\ UNCHANGED <<others, mediaSource>>

\* playInto: getRecording resolves; playMSESequence creates the MediaSource
\* and renders its URL, or playConcatenatedWebM renders the whole blob
PlayGetRecordingDone ==
  /\ playJob.pc = "getRecording"
  /\ IF playJob.prefer = "mse" /\ playJob.supported /\ playJob.hasMediaSource
     THEN /\ playJob' = [playJob EXCEPT !.pc = "sourceopen"]
          /\ mediaSource' = NoMediaSource
          /\ rendered' = [NoArtifact EXCEPT !.kind = "mse"]
     ELSE /\ playJob' = [playJob EXCEPT !.pc = "done", !.result = "ok"]
          /\ rendered' = Concatenated(playJob.list)
          /\ UNCHANGED mediaSource
  /\ UNCHANGED others

\* the catch of the sourceopen handler and the catch of playInto:
\* endOfStream('network'), reject, console.warn, playConcatenatedWebM
MseFailed(ms) ==
  /\ mediaSource' = [ms EXCEPT
        !.endOfStream = IF ms.readyState = "open" THEN "network" ELSE @,
        !.readyState = IF ms.readyState = "open" THEN "ended" ELSE @]
  /\ playJob' = [playJob EXCEPT !.pc = "done", !.result = "ok"]
  /\ rendered' = Concatenated(playJob.list)

\* 'sourceopen' fires: addSourceBuffer(mime) returns the buffer or throws
MseSourceOpen(outcome) ==
  /\ playJob.pc = "sourceopen"
  /\ LET ms == [mediaSource EXCEPT !.readyState = "open"]
     IN  IF outcome = "throws"
         THEN MseFailed(ms)
         ELSE /\ mediaSource' = ms
              /\ playJob' = [playJob EXCEPT !.pc = "append"]
              /\ UNCHANGED rendered
  /\ UNCHANGED others

\* the loop body up to await waitEnd(): sb.appendBuffer(ab) for the next
\* chunk.  appendBuffer throws on its own account (quota), and always while
\* the buffer is updating or the element is in error.
MseAppend(outcome) ==
  /\ playJob.pc = "append"
  /\ LET c  == playJob.list[playJob.k + 1]
         ms == [mediaSource EXCEPT !.appended = Append(@, c.index)]
     IN  IF outcome = "throws" \/ mediaSource.updating \/ mediaSource.error
         THEN MseFailed([ms EXCEPT !.failed = @ \cup {playJob.k + 1}])
         ELSE /\ mediaSource' = [ms EXCEPT !.updating = TRUE]
              /\ playJob' = [playJob EXCEPT !.pc = "waitEnd", !.k = @ + 1]
              /\ UNCHANGED rendered
  /\ UNCHANGED others

\* a loop that leaves after the first chunk
MseLoopDone_early(j) == j.k >= 1

\* for (const c of chunks) has no chunk left
MseLoopDone(j) == j.k = Len(j.list)

\* 'updateend' fires after the append was processed or after it failed (the
\* append error algorithm ends the stream and puts the element in error);
\* waitEnd resolves and the loop goes on, or ends with endOfStream()
MseUpdateEnd(outcome) ==
  /\ playJob.pc = "waitEnd"
  /\ mediaSource.updating
  /\ LET err == outcome = "error"
         ms  == [mediaSource EXCEPT
                   !.updating = FALSE, !.acked = @ + 1,
                   !.error = err,
                   !.readyState = IF err THEN "ended" ELSE @,
                   !.failed = IF err THEN @ \cup {playJob.k} ELSE @]
     IN  IF MseLoopDone(playJob)
         THEN /\ mediaSource' =
                   IF ms.readyState = "open" /\ ~ms.updating
                   THEN [ms EXCEPT !.endOfStream = "ok", !.readyState = "ended"]
                   ELSE ms
              /\ playJob' = [playJob EXCEPT !.pc = "done", !.result = "ok"]
         ELSE /\ mediaSource' = ms
              /\ playJob' = [playJob EXCEPT !.pc = "append"]
  /\ UNCHANGED <<others, rendered>>

Reconstruct ==
  \/ \E id \in CallerIds : \E prefer \in {"mse", "concat"} : \E hasMS, supp \in BOOLEAN :
        playInto(id, prefer, hasMS, supp)
  \/ \E id \in CallerIds : exportClick(id)
  \/ GetManifestDone
  \/ PlayGetChunksDone
  \/ ExportGetChunksDone
  \/ PlayGetRecordingDone
  \/ \E outcome \in {"ok", "throws"} : MseSourceOpen(outcome)
  \/ \E outcome \in {"ok", "throws"} : MseAppend(outcome)
  \/ \E outcome \in {"ok", "error"} : MseUpdateEnd(outcome)

NextPlay == Library \/ Reconstruct

SpecPlay == Init /\ [][NextPlay]_vars

\* ------------------------------------- the recorder of pcm-recorder.worklet.js
\* Its callback awaits flushFullSlices() itself: the call runs in the
\* callback's turn up to the await of the first putChunk.  The rest of that
\* recorder (the session state, start, pause, resume, stop and both flushes)
\* reads as in recorder-box.js.
workletOnaudioprocess ==
  /\ ~microtask
  /\ live # {}
  /\ lastCall' = "none"
  /\ NoEmit
  /\ IF status # "recording"
     THEN UNCHANGED <<accum, chunkIndex, inflight, accepted, nextFrame, nBlocks>>
     ELSE /\ nBlocks < MaxBlocks
          /\ nBlocks' = nBlocks + 1
          /\ nextFrame' = nextFrame + BlockLen
          /\ LET r == flushFullSlices(appendToAccum(accum, MonoBlock(nextFrame)),
                                      chunkIndex, currentId, inflight)
             IN  /\ accum' = r.accum
                 /\ chunkIndex' = r.chunkIndex
                 /\ inflight' = r.inflight
          /\ accepted' = IF currentId = NullId THEN accepted
                         ELSE [accepted EXCEPT ![currentId] = @ \o MonoBlock(nextFrame)]
  /\ UNCHANGED <<aux, now, status, currentId, startTs, pausedAccum, pauseTs, isPaused,
                 stats, statsTimer, graph, microtask, startTasks, stopTasks, store,
                 nStarts, nStops, stopped, durLog, readyLog, spanSum, spanStart,
                 dupPuts, tornDownWith>>

\* the completions of awaited requests of that recorder
ProgressWorklet ==
  \/ CompleteFlushPut
  \/ CompleteRemainderPut
  \/ \E t \in startTasks : StartGetUserMediaDone(t)
  \/ \E t \in startTasks : StartPutRecordingDone(t)
  \/ \E t \in startTasks : StartSetManifestDone(t)
  \/ \E t \in stopTasks : SetDurationGetDone(t)
  \/ \E t \in stopTasks : SetDurationPutDone(t)
  \/ \E t \in stopTasks : MarkStatusGetDone(t)
  \/ \E t \in stopTasks : MarkStatusPutDone(t)

NextWorklet == ProgressWorklet \/ Accepted \/ workletOnaudioprocess

SpecWorklet == Init /\ [][NextWorklet]_vars

\* ------------------------------------------------------ the slice target
\* Math.round(frames / 128) * 128 for frames = rate * ms / 1000 >= 0
RoundToAlign(rate, ms) ==
  ((2 * rate * ms + FrameAlign * 1000) \div (2 * FrameAlign * 1000)) * FrameAlign

\* Number(chunkSeconds) || 2, in milliseconds
NumberOr2(cs) == IF cs = 0 THEN DefaultChunkMs ELSE cs

\* the target createRecorderBox computes before any session
InitialTarget(cs) ==
  RoundToAlign(InitialRate,
               IF NumberOr2(cs) > MinSliceMs THEN NumberOr2(cs) ELSE MinSliceMs)

\* the target start() computes from ctx.sampleRate
SliceTarget(cs, rate) == RoundToAlign(rate, NumberOr2(cs))

\* the chunkSeconds options and the rates a device is opened at
RequestedMs == (0..MaxChunkMs) \cup {DefaultChunkMs}
DeviceRates == {44100, InitialRate}

InitTarget ==
  \E cs \in RequestedMs : createRecorderBox(cs, InitialRate, InitialTarget(cs))

\* start() from the AudioContext to sliceFramesTarget
StartSliceTarget(rate) ==
  /\ CanStart(status)
  /\ lastCall # "start"
  /\ lastCall' = "start"
  /\ sampleRate' = rate
  /\ sliceFramesTarget' = SliceTarget(chunkSeconds, rate)
  /\ UNCHANGED <<aux, now, ctl, stats, statsTimer, stream, proc, live, accum, microtask,
                 inflight, startTasks, stopTasks, store, cnt, emits, hist>>

NextTarget == \E rate \in DeviceRates : StartSliceTarget(rate)

SpecTarget == InitTarget /\ [][NextTarget]_vars

\* one session recorded with the target start() computes from the
\* chunkSeconds option and the rate of the device; a run of flushFullSlices
\* is followed for at most MaxRunChunks chunks
NextSlices ==
  \/ nStarts < 1 /\ AcceptedStart
  \/ \E t \in startTasks : \E rate \in DeviceRates :
        StartGetUserMediaDoneAt(t, rate, SliceTarget(chunkSeconds, rate))
  \/ \E t \in startTasks : StartPutRecordingDone(t)
  \/ \E t \in startTasks : StartSetManifestDone(t)
  \/ onaudioprocess
  \/ chunkIndex < MaxRunChunks /\ FlushMicrotask
  \/ chunkIndex < MaxRunChunks /\ CompleteFlushPut

SpecSlices == InitTarget /\ [][NextSlices]_vars

\* elapsed-time accounting: the clock runs and the stats timer ticks; the
\* callback keeps few blocks and few sessions are started
Next ==
  \/ Progress \/ AcceptedRest
  \/ (nStarts < MaxTimedSessions /\ AcceptedStart)
  \/ (nBlocks < MaxTimedBlocks /\ onaudioprocess)
  \/ Tick
  \/ startStats

Spec == Init /\ [][Next]_vars

\* ------------------------------------ the container-native recorder
\* adapters/recorder-box.js: the same controller state, a MediaRecorder in
\* place of the processor.  What this recorder never touches:
quiet == <<isPaused, proc, sampleRate, sliceFramesTarget, accum, microtask, nStops,
           nextFrame, emitStats, hist, stopOutcome, fails, storeCall, delTasks, delLog,
           play, opts, reported>>

MrEvent(kind, h, id) ==
  [kind |-> kind, by |-> h, id |-> id, dur |-> 0, finTs |-> 0, finStart |-> 0,
   ownPaused |-> 0]

\* the blob MediaRecorder h delivers
MrBlob(h) == <<h>>

\* start(): getUserMedia resolves; the session fields are reset (pauseTs is
\* not among them) and putRecording is awaited
MrStartGetUserMediaDone(t) ==
  /\ t \in startTasks /\ t.pc = "acquire"
  /\ stream' = t.sid
  /\ live' = live \cup {t.sid}
  /\ currentId' = t.sid
  /\ chunkIndex' = 0
  /\ pausedAccum' = 0
  /\ stats' = [durationMs |-> 0, chunkCount |-> 0, bytes |-> 0]
  /\ startTs' = now
  /\ sessLog' = [sessLog EXCEPT ![t.sid] = [began |-> now, paused |-> 0, openAt |-> 0]]
  /\ startTasks' = (startTasks \ {t}) \cup
       {[t EXCEPT !.pc = "mrPutRecording",
                  !.rec = [id |-> t.sid, createdAt |-> now,
                           status |-> "recording", durationMs |-> 0]]}
  /\ lastCall' = "none"
  /\ emitStatus' = <<>> /\ emitChunk' = <<>>
  /\ UNCHANGED <<quiet, now, status, pauseTs, statsTimer, inflight, stopTasks, store,
                 nBlocks, nStarts, mediaRecorder, mrObj, mrLog>>

\* putRecording completes; setManifest(currentId, ...) is issued, and throws
\* on a null currentId
MrStartPutRecordingDone(t) ==
  /\ t \in startTasks /\ t.pc = "mrPutRecording"
  /\ recordings' = [recordings EXCEPT ![t.rec.id] = t.rec]
  /\ startTasks' =
       IF currentId = NullId THEN startTasks \ {t}
       ELSE (startTasks \ {t}) \cup
            {[t EXCEPT !.pc = "mrSetManifest",
                       !.man = [AdapterManifest EXCEPT !.recordingId = currentId]]}
  /\ lastCall' = "none"
  /\ emitStatus' = <<>> /\ emitChunk' = <<>>
  /\ UNCHANGED <<quiet, now, ctl, stats, statsTimer, stream, live, inflight, stopTasks,
                 manifests, chunks, nBlocks, nStarts, mr>>

\* setManifest completes; the MediaRecorder is created on the stream of this
\* call and started, startStats(), setStatus('recording')
MrStartSetManifestDone(t) ==
  /\ t \in startTasks /\ t.pc = "mrSetManifest"
  /\ manifests' = [manifests EXCEPT ![t.man.recordingId] = t.man]
  /\ mediaRecorder' = t.sid
  /\ mrObj' = [mrObj EXCEPT ![t.sid] = [state |-> "recording", queue |-> <<>>]]
  /\ statsTimer' = [handle |-> t.sid, running |-> statsTimer.running \cup {t.sid}]
  /\ status' = "recording"
  /\ emitStatus' = <<"recording">>
  /\ emitChunk' = <<>>
  /\ startTasks' = startTasks \ {t}
  /\ lastCall' = "none"
  /\ UNCHANGED <<quiet, now, currentId, chunkIndex, startTs, pausedAccum, pauseTs, stats,
                 stream, live, inflight, stopTasks, recordings, chunks, nBlocks, nStarts,
                 sessLog, mrLog>>

\* the ondataavailable handler of MediaRecorder h up to the await of
\* putChunk; it reads currentId and chunkIndex of the controller
ondataavailable(h, blob) ==
  IF blob = <<>>
  THEN UNCHANGED <<chunkIndex, inflight, mrLog>>
  ELSE /\ chunkIndex' = chunkIndex + 1
       /\ IF currentId = NullId
          THEN /\ mrLog' = mrLog \cup {MrEvent("lost", h, NullId)}
               /\ UNCHANGED inflight
          ELSE /\ inflight' = Append(inflight,
                     [recordingId |-> currentId, index |-> chunkIndex, blob |-> blob,
                      size |-> Len(blob), startMs |-> 0, endMs |-> 0, owner |-> 0])
               /\ UNCHANGED mrLog

\* the timeslice of a recording MediaRecorder elapses
MrTimeslice(h) ==
  /\ mrObj[h].state = "recording"
  /\ nBlocks < MaxMrData
  /\ nBlocks' = nBlocks + 1
  /\ ondataavailable(h, MrBlob(h))
  /\ lastCall' = "none"
  /\ emitStatus' = <<>> /\ emitChunk' = <<>>
  /\ UNCHANGED <<quiet, now, status, currentId, startTs, pausedAccum, pauseTs, stats,
                 statsTimer, stream, live, startTasks, stopTasks, store, nStarts,
                 mediaRecorder, mrObj, sessLog>>

\* the dataavailable event a stopped MediaRecorder fires with what it had
\* gathered, which may be nothing
MrFlushOnStop(h, blob) ==
  /\ mrObj[h].queue # <<>> /\ Head(mrObj[h].queue) = "dataavailable"
  /\ mrObj' = [mrObj EXCEPT ![h].queue = Tail(@)]
  /\ ondataavailable(h, blob)
  /\ lastCall' = "none"
  /\ emitStatus' = <<>> /\ emitChunk' = <<>>
  /\ UNCHANGED <<quiet, now, status, currentId, startTs, pausedAccum, pauseTs, stats,
                 statsTimer, stream, live, startTasks, stopTasks, store, nBlocks, nStarts,
                 mediaRecorder, sessLog>>

\* the putChunk awaited by ondataavailable completes
MrPutChunkDone ==
  /\ inflight # <<>>
  /\ LET req == Head(inflight)
     IN  /\ chunks' = putChunk(chunks, ChunkRow(req))
         /\ stats' = [stats EXCEPT !.chunkCount = @ + 1, !.bytes = @ + req.size]
         /\ emitChunk' = <<[size |-> req.size, index |-> chunkIndex - 1]>>
  /\ inflight' = Tail(inflight)
  /\ lastCall' = "none"
  /\ emitStatus' = <<>>
  /\ UNCHANGED <<quiet, now, ctl, statsTimer, stream, live, startTasks, stopTasks,
                 recordings, manifests, nBlocks, nStarts, mr>>

\* pause() past its check; MediaRecorder.pause() throws on an inactive
\* recorder and pause() rejects
mrPause ==
  /\ mediaRecorder # 0 /\ CanPause(status)
  /\ IF mrObj[mediaRecorder].state = "inactive"
     THEN /\ lastCall' = "pause: threw"
          /\ emitStatus' = <<>>
          /\ UNCHANGED <<status, pauseTs, mrObj, sessLog>>
     ELSE /\ lastCall' = "none"
          /\ mrObj' = [mrObj EXCEPT ![mediaRecorder].state = "paused"]
          /\ pauseTs' = now
          /\ sessLog' = [sessLog EXCEPT ![mediaRecorder].openAt = now]
          /\ status' = "paused"
          /\ emitStatus' = <<"paused">>
  /\ emitChunk' = <<>>
  /\ UNCHANGED <<quiet, now, currentId, chunkIndex, startTs, pausedAccum, stats,
                 statsTimer, stream, live, inflight, startTasks, stopTasks, store,
                 nBlocks, nStarts, mediaRecorder, mrLog>>

\* resume() past its check
mrResume ==
  /\ mediaRecorder # 0 /\ CanResume(status)
  /\ IF mrObj[mediaRecorder].state = "inactive"
     THEN /\ lastCall' = "resume: threw"
          /\ emitStatus' = <<>>
          /\ UNCHANGED <<status, pauseTs, pausedAccum, mrObj, sessLog>>
     ELSE /\ lastCall' = "none"
          /\ mrObj' = [mrObj EXCEPT ![mediaRecorder].state = "recording"]
          /\ pausedAccum' = IF pauseTs # 0 THEN pausedAccum + (now - pauseTs)
                            ELSE pausedAccum
          /\ pauseTs' = 0
          /\ sessLog' = [sessLog EXCEPT
               ![mediaRecorder].paused = IF sessLog[mediaRecorder].openAt # 0
                                         THEN @ + (now - sessLog[mediaRecorder].openAt)
                                         ELSE @,
               ![mediaRecorder].openAt = 0]
          /\ status' = "recording"
          /\ emitStatus' = <<"recording">>
  /\ emitChunk' = <<>>
  /\ UNCHANGED <<quiet, now, currentId, chunkIndex, startTs, stats,
                 statsTimer, stream, live, inflight, startTasks, stopTasks, store,
                 nBlocks, nStarts, mediaRecorder, mrLog>>

\* stop(): MediaRecorder.stop() queues the last dataavailable and the stop
\* event (it throws on an inactive recorder, which is caught); the open
\* pause span is added, pauseTs is left as it is; setStatus('idle')
mrStop ==
  /\ mediaRecorder # 0 /\ CanStop(status)
  /\ lastCall' = "none"
  /\ mrObj' = IF mrObj[mediaRecorder].state = "inactive" THEN mrObj
              ELSE [mrObj EXCEPT ![mediaRecorder] =
                      [state |-> "inactive", queue |-> <<"dataavailable", "stop">>]]
  /\ pausedAccum' = IF pauseTs # 0 THEN pausedAccum + (now - pauseTs) ELSE pausedAccum
  /\ sessLog' = [sessLog EXCEPT
       ![mediaRecorder].paused = IF sessLog[mediaRecorder].openAt # 0
                                 THEN @ + (now - sessLog[mediaRecorder].openAt)
                                 ELSE @,
       ![mediaRecorder].openAt = 0]
  /\ status' = "idle"
  /\ emitStatus' = <<"idle">>
  /\ emitChunk' = <<>>
  /\ UNCHANGED <<quiet, now, currentId, chunkIndex, startTs, pauseTs, stats,
                 statsTimer, stream, live, inflight, startTasks, stopTasks, store,
                 nBlocks, nStarts, mediaRecorder, mrLog>>

\* the onstop handler of MediaRecorder h up to the await of getRecording
\* inside setDuration; getRecording(null) throws and the handler ends there
onstop(h) ==
  /\ mrObj[h].queue # <<>> /\ Head(mrObj[h].queue) = "stop"
  /\ mrObj' = [mrObj EXCEPT ![h].queue = Tail(@)]
  /\ IF currentId = NullId
     THEN /\ mrLog' = mrLog \cup {MrEvent("unfinalized", h, NullId)}
          /\ UNCHANGED stopTasks
     ELSE /\ stopTasks' = stopTasks \cup
               {[h |-> h, pc |-> "onstopDurationGet", id |-> currentId,
                 dur |-> effectiveDuration(now, startTs, pausedAccum), row |-> NoRow,
                 finTs |-> now, finStart |-> startTs, ownPaused |-> sessLog[h].paused]}
          /\ UNCHANGED mrLog
  /\ lastCall' = "none"
  /\ emitStatus' = <<>> /\ emitChunk' = <<>>
  /\ UNCHANGED <<quiet, now, ctl, stats, statsTimer, stream, live, inflight, startTasks,
                 store, nBlocks, nStarts, mediaRecorder, sessLog>>

\* markStatus(currentId, 'ready') of onstop up to the await of getRecording
onstopMarkStatus(t) ==
  IF currentId = NullId THEN {}
  ELSE {[t EXCEPT !.pc = "onstopStatusGet", !.id = currentId]}

OnstopSetDurationGetDone(t) ==
  /\ t \in stopTasks /\ t.pc = "onstopDurationGet"
  /\ stopTasks' =
       IF recordings[t.id] = NoRow
       THEN (stopTasks \ {t}) \cup onstopMarkStatus(t)
       ELSE (stopTasks \ {t}) \cup
            {[t EXCEPT !.pc = "onstopDurationPut",
                       !.row = [recordings[t.id] EXCEPT !.durationMs = t.dur]]}
  /\ lastCall' = "none"
  /\ emitStatus' = <<>> /\ emitChunk' = <<>>
  /\ UNCHANGED <<quiet, now, ctl, stats, statsTimer, stream, live, inflight, startTasks,
                 store, nBlocks, nStarts, mr>>

OnstopSetDurationPutDone(t) ==
  /\ t \in stopTasks /\ t.pc = "onstopDurationPut"
  /\ recordings' = [recordings EXCEPT ![t.id] = t.row]
  /\ mrLog' = mrLog \cup
       {[MrEvent("duration", t.h, t.id) EXCEPT
           !.dur = t.dur, !.finTs = t.finTs, !.finStart = t.finStart,
           !.ownPaused = t.ownPaused]}
  /\ stopTasks' = (stopTasks \ {t}) \cup onstopMarkStatus(t)
  /\ lastCall' = "none"
  /\ emitStatus' = <<>> /\ emitChunk' = <<>>
  /\ UNCHANGED <<quiet, now, ctl, stats, statsTimer, stream, live, inflight, startTasks,
                 manifests, chunks, nBlocks, nStarts, mediaRecorder, mrObj, sessLog>>

\* the end of onstop: stopStats(), teardownStream() on whatever
\* mediaRecorder refers to now, setStatus('ready'), currentId = null.  A
\* MediaRecorder whose tracks are stopped under it goes inactive and fires
\* its last events.
teardownStream(t) ==
  /\ statsTimer' = [handle |-> 0, running |-> statsTimer.running \ {statsTimer.handle}]
  /\ live' = live \ {mediaRecorder}
  /\ mrObj' = IF mediaRecorder # 0 /\ mrObj[mediaRecorder].state \in {"recording", "paused"}
              THEN [mrObj EXCEPT ![mediaRecorder] =
                      [state |-> "inactive", queue |-> <<"dataavailable", "stop">>]]
              ELSE mrObj
  /\ mediaRecorder' = 0
  /\ stream' = 0
  /\ status' = "ready"
  /\ emitStatus' = <<"ready">>
  /\ currentId' = NullId
  /\ stopTasks' = stopTasks \ {t}
  /\ emitChunk' = <<>>
  /\ UNCHANGED <<quiet, now, chunkIndex, startTs, pausedAccum, pauseTs, stats, inflight,
                 startTasks, manifests, chunks, nBlocks, nStarts, sessLog>>

OnstopMarkStatusGetDone(t) ==
  /\ t \in stopTasks /\ t.pc = "onstopStatusGet"
  /\ lastCall' = "none"
  /\ IF recordings[t.id] = NoRow
     THEN /\ teardownStream(t)
          /\ UNCHANGED <<recordings, mrLog>>
     ELSE /\ stopTasks' = (stopTasks \ {t}) \cup
               {[t EXCEPT !.pc = "onstopStatusPut",
                          !.row = [recordings[t.id] EXCEPT !.status = "ready"]]}
          /\ emitStatus' = <<>> /\ emitChunk' = <<>>
          /\ UNCHANGED <<quiet, now, ctl, stats, statsTimer, stream, live, inflight,
                         startTasks, store, nBlocks, nStarts, mr>>

OnstopMarkStatusPutDone(t) ==
  /\ t \in stopTasks /\ t.pc = "onstopStatusPut"
  /\ recordings' = [recordings EXCEPT ![t.id] = t.row]
  /\ mrLog' = mrLog \cup {MrEvent("ready", t.h, t.id)}
  /\ lastCall' = "none"
  /\ teardownStream(t)

\* the caller awaits each start() before it calls start() again
NextAdapter ==
  \/ startTasks = {} /\ AcceptedStart
  \/ mrPause
  \/ mrResume
  \/ mrStop
  \/ now <= MaxMrTime /\ Tick
  \/ \E t \in startTasks : MrStartGetUserMediaDone(t)
  \/ \E t \in startTasks : MrStartPutRecordingDone(t)
  \/ \E t \in startTasks : MrStartSetManifestDone(t)
  \/ \E h \in Ids : MrTimeslice(h)
  \/ \E h \in Ids : \E blob \in {<<>>, MrBlob(h)} : MrFlushOnStop(h, blob)
  \/ MrPutChunkDone
  \/ \E h \in Ids : onstop(h)
  \/ \E t \in stopTasks : OnstopSetDurationGetDone(t)
  \/ \E t \in stopTasks : OnstopSetDurationPutDone(t)
  \/ \E t \in stopTasks : OnstopMarkStatusGetDone(t)
  \/ \E t \in stopTasks : OnstopMarkStatusPutDone(t)

SpecAdapter == Init /\ [][NextAdapter]_vars

\* ------------------------------------------------------------- properties
ChunkIdxs(id) == {c.index : c \in {x \in chunks : x.recordingId = id}}

Payload(id, n) == (CHOOSE c \in chunks : c.recordingId = id /\ c.index = n).blob

Min(S) == CHOOSE m \in S : \A x \in S : m <= x

RECURSIVE ConcatInOrder(_, _)
ConcatInOrder(id, S) ==
  IF S = {} THEN <<>>
  ELSE Payload(id, Min(S)) \o ConcatInOrder(id, S \ {Min(S)})

\* the persisted payloads of a recording, concatenated in index order
Persisted(id) == ConcatInOrder(id, ChunkIdxs(id))

\* C1: once stop() has run to its end, the persisted payloads of the
\* recording, concatenated in index order, are exactly the downmixed
\* samples the callback kept for it, in arrival order.
C1_PersistedEqualsKept ==
  \A id \in stopped : Persisted(id) = accepted[id]

\* C2: at most one putChunk is outstanding for a recording at any time.
C2_OnePutOutstanding ==
  \A i, j \in 1..Len(inflight) :
    i # j => inflight[i].recordingId # inflight[j].recordingId

C5_FlushDoneBeforeTeardown == tornDownWith = {}

\* C8: for every recording durationMs is written once and status is set to
\* ready once; before that durationMs is 0 and status is recording.
C8_FinalizedOnce ==
  \A id \in Ids :
    /\ Len(durLog[id]) <= 1
    /\ readyLog[id] <= 1
    /\ Len(durLog[id]) = 0 => recordings[id].durationMs = 0
    /\ readyLog[id] = 0 => recordings[id].status \in {"none", "recording"}

\* C6: for a stop() called while recording, the durationMs that setDuration
\* writes at finalize is (time at finalize - startTs) minus the sum of the
\* completed pause spans of the session, whatever the stats timer did.
C6_DurationExcludesPauses ==
  \A id \in Ids : \A k \in 1..Len(durLog[id]) :
    durLog[id][k].from = "recording" =>
      durLog[id][k].dur =
        (durLog[id][k].finTs - durLog[id][k].finStart) - durLog[id][k].finSpans

C6_Witness ==
  \E id \in Ids : \E k \in 1..Len(durLog[id]) :
    /\ durLog[id][k].from = "recording"
    /\ durLog[id][k].finSpans > 0
    /\ durLog[id][k].dur > 0
    /\ recordings[id].durationMs = durLog[id][k].dur
    /\ stats.durationMs > 0

\* C7: for a stop() called while paused, the open pause span (stop time -
\* pauseTs) is taken off as well: durationMs = (time at finalize - startTs)
\* - completed spans - (stop time - time of the last pause).
C7_OpenSpanAccrued ==
  \A id \in Ids : \A k \in 1..Len(durLog[id]) :
    durLog[id][k].from = "paused" =>
      durLog[id][k].dur =
        (durLog[id][k].finTs - durLog[id][k].finStart) - durLog[id][k].finSpans
          - (durLog[id][k].stopTs - durLog[id][k].openStart)

\* C9: pause() outside recording and resume() outside paused change neither
\* status, pauseTs, pausedAccum, the buffer, chunkIndex nor the chunk store,
\* issue no putChunk and emit no status event.
C9_PauseResumeNoop ==
  [][ ( \/ (lastCall' \in {"pause", "pause: no-op"} /\ status # "recording")
        \/ (lastCall' \in {"resume", "resume: no-op"} /\ status # "paused") )
      => ( /\ UNCHANGED <<status, pauseTs, pausedAccum, isPaused, accum, chunkIndex,
                          chunks, inflight>>
           /\ emitStatus' = <<>> ) ]_vars

C9_Witness ==
  /\ lastCall = "pause: no-op"
  /\ status = "paused"
  /\ accum # <<>>
  /\ chunks # {}

\* C10: start() while recording or paused and stop() while idle acquire no
\* device, write nothing to the store, emit no status event and leave
\* status, currentId, chunkIndex, pausedAccum and the buffer unchanged.
C10_StartStopNoop ==
  [][ ( \/ (lastCall' \in {"start", "start: no-op"} /\ status \in {"recording", "paused"})
        \/ (lastCall' \in {"stop", "stop: no-op"} /\ status = "idle") )
      => ( /\ UNCHANGED <<status, currentId, chunkIndex, pausedAccum, accum,
                          stream, proc, live, startTasks, stopTasks, inflight,
                          recordings, manifests, chunks>>
           /\ emitStatus' = <<>> ) ]_vars

C10_Witness ==
  /\ lastCall = "start: no-op"
  /\ status = "paused"
  /\ accum # <<>>
  /\ chunks # {}

\* C11: when getUserMedia rejects, start() rejects with that error; the step
\* leaves status as it was (idle for a call that is alone), emits no status
\* event, and writes no recording row, manifest or chunk and queues no
\* putChunk; nothing is ever stored for that call.
C11_AcquireFailureLeavesIdle ==
  /\ [][ startErr' # startErr =>
          /\ \E e \in startErr' \ startErr : e.error \in AcquireErrors
          /\ UNCHANGED <<status, currentId, recordings, manifests, chunks, inflight,
                         stream, proc, live>>
          /\ emitStatus' = <<>> ]_vars
  /\ [](\A e \in startErr :
          /\ recordings[e.sid] = NoRow
          /\ manifests[e.sid] = NoManifest
          /\ \A c \in chunks : c.recordingId # e.sid)

C11_Witness ==
  /\ \E e \in startErr : e.sid = 1
  /\ status = "idle"
  /\ startTasks = {}
  /\ nStarts = 1

\* C12: at the step of start() that sets status to recording, the recording
\* row (status recording, durationMs 0) and the manifest (pcm-f32, 1 channel,
\* the context's sample rate) of the session are stored and chunkIndex,
\* pausedAccum and the chunk and byte counters are 0; every stored chunk
\* belongs to a recording whose row and manifest are stored.
C12_SessionStoredBeforeRecording ==
  /\ [][ (startTasks' # startTasks /\ emitStatus' = <<"recording">>) =>
          /\ currentId' # NullId
          /\ recordings'[currentId'].id = currentId'
          /\ recordings'[currentId'].status = "recording"
          /\ recordings'[currentId'].durationMs = 0
          /\ manifests'[currentId'] = [recordingId |-> currentId', format |-> "pcm-f32",
                                       channels |-> 1, sampleRate |-> ctxSampleRate]
          /\ chunkIndex' = 0 /\ pausedAccum' = 0
          /\ stats'.chunkCount = 0 /\ stats'.bytes = 0 ]_vars
  /\ [](\A c \in chunks : /\ recordings[c.recordingId] # NoRow
                           /\ manifests[c.recordingId] # NoManifest)

C14_DuplicateChunkRejected ==
  [][ (storeCall' # storeCall /\ storeCall'.op = "putChunk" /\ storeCall'.existed)
      => (storeCall'.result = "DuplicateChunk" /\ chunks' = chunks) ]_vars

\* C15: of the parts of a recording that deleteRecording found (row,
\* manifest, chunks), at every moment either none or all are removed, also
\* after a deleteRecording that failed.
C15_DeleteAtomic ==
  \A id \in Ids :
    delLog[id].called =>
      LET gone == delLog[id].had \ Parts(id)
      IN  gone = {} \/ gone = delLog[id].had

\* C16: the step in which a putChunk of flushFullSlices or of
\* flushRemainderOnStop fails emits an event to the recorder's subscribers.
C16_FlushFailureEmitted ==
  [][ consoleLog' # consoleLog =>
        (emitStatus' # <<>> \/ emitChunk' # <<>> \/ emitStats' # <<>>) ]_vars

\* a playInto or export call has run to its end
Finished(op) == playJob.op = op /\ playJob.pc = "done"

\* C17: playback and export of a recording without chunks end in the
\* empty-recording error and hand nothing to the audio element or to the
\* download link, for a PCM manifest and for any other.
C17_EmptyRecordingRejected ==
  ((Finished("play") \/ Finished("export")) /\ playJob.list = <<>>) =>
    (playJob.result = "No chunks to play" /\ rendered = NoArtifact)

\* C18: the WAV assembled for a PCM recording with chunks is 44 + 2 * frames
\* bytes long, declares the manifest's sample rate, 1 channel and 16 bits,
\* and its samples are the 16-bit values of the stored samples taken in
\* ascending chunk index, for playback and for export.
C18_WavOfChunks ==
  ((Finished("play") \/ Finished("export"))
      /\ playJob.manifest.format = "pcm-f32" /\ playJob.list # <<>>) =>
    LET w   == rendered.wav
        pcm == Persisted(playJob.id)
    IN  /\ rendered.kind \in {"wav", "download wav"}
        /\ w.byteLength = 44 + 2 * Len(pcm)
        /\ w.sampleRate = playJob.manifest.sampleRate
        /\ w.numChannels = 1
        /\ w.bitsPerSample = 16
        /\ Len(w.samples) = Len(pcm)
        /\ \A i \in 1..Len(pcm) :
             /\ w.samples[i] = ToInt16(pcm[i])
             /\ w.samples[i] \in -32768..32767
             /\ (pcm[i] >= SampleUnit => w.samples[i] = 32767)
             /\ (pcm[i] <= -SampleUnit => w.samples[i] = -32768)

C18_Witness ==
  /\ Finished("play")
  /\ rendered.kind = "wav"
  /\ Len(playJob.list) = 2
  /\ Len(rendered.wav.samples) = 3
  /\ playJob.manifest.sampleRate = DefaultRate
  /\ \E i, j \in 1..3 : rendered.wav.samples[i] < 0 /\ rendered.wav.samples[j] > 0

\* C19: appendBuffer is called for the chunks in ascending index order and
\* never while the buffer is updating, at most one append is unacknowledged,
\* and endOfStream() is only called once every chunk was appended and every
\* append acknowledged.
C19_AppendsInOrderOneAtATime ==
  /\ [](\A i \in 1..Len(mediaSource.appended) :
            mediaSource.appended[i] = playJob.list[i].index)
  /\ [](\A i, j \in 1..Len(playJob.list) :
            (i < j => playJob.list[i].index < playJob.list[j].index))
  /\ [](Len(mediaSource.appended) - mediaSource.acked
            <= (IF mediaSource.updating THEN 1 ELSE 0) + Cardinality(mediaSource.failed))
  /\ [](mediaSource.endOfStream = "ok" =>
            /\ Len(mediaSource.appended) = Len(playJob.list)
            /\ mediaSource.acked = Len(playJob.list)
            /\ ~mediaSource.updating)
  /\ [][ Len(mediaSource'.appended) > Len(mediaSource.appended)
           => ~mediaSource.updating ]_vars

C19_Witness ==
  /\ Finished("play")
  /\ mediaSource.endOfStream = "ok"
  /\ Len(playJob.list) = 2
  /\ mediaSource.appended = <<0, 1>>

\* C20: a playInto on a recording that is not PCM and has chunks, for which
\* MediaSource is missing, no candidate type is supported or an append
\* failed, ends without an error and has rendered one blob, the payloads of
\* all chunks in index order.
C20_FallbackOnStreamingFailure ==
  (Finished("play") /\ playJob.manifest.format # "pcm-f32" /\ playJob.list # <<>>
     /\ (~playJob.hasMediaSource \/ ~playJob.supported \/ mediaSource.failed # {})) =>
    /\ playJob.result = "ok"
    /\ rendered.kind = "concat"
    /\ rendered.blob = Persisted(playJob.id)

\* C21: in a session without a pause in which the callback kept F frames,
\* with a slice target of T frames, once stop() has run to its end the
\* store holds ceil(F/T) chunks under the indices 0..ceil(F/T)-1, the first
\* floor(F/T) of T frames and, when F mod T > 0, a last one of F mod T
\* frames; chunkCount has that value when stop() ends.
C21_ChunkCountOfSession ==
  /\ [](\A id \in stopped :
          LET F == Len(accepted[id])
              T == sliceFramesTarget
              n == (F + T - 1) \div T
          IN  /\ ChunkIdxs(id) = 0..(n - 1)
              /\ \A k \in 0..((F \div T) - 1) : Len(Payload(id, k)) = T
              /\ (F % T > 0 => Len(Payload(id, F \div T)) = F % T))
  /\ [][ \A id \in stopped' \ stopped :
           stats'.chunkCount = (Len(accepted'[id]) + sliceFramesTarget - 1)
                                 \div sliceFramesTarget ]_vars

\* the status transitions a subscriber may see
AllowedTransitions ==
  { <<"idle", "recording">>, <<"recording", "paused">>, <<"paused", "recording">>,
    <<"recording", "ready">>, <<"paused", "ready">>, <<"ready", "idle">> }

\* C22: every 'status' event follows the previous one (idle before the
\* first) by one of idle->recording, recording->paused, paused->recording,
\* recording->ready, paused->ready, ready->idle, also when calls overlap.
\* status always holds the status of the last event, setStatus being the
\* only place that assigns it.
C22_StatusTransitions ==
  [][ \A i \in 1..Len(emitStatus') :
        <<(IF i = 1 THEN status ELSE emitStatus'[i - 1]), emitStatus'[i]>>
          \in AllowedTransitions ]_vars

Max(S) == CHOOSE m \in S : \A x \in S : m >= x

\* C23: a putChunk issued by flushFullSlices carries exactly T frames, no
\* stored chunk has more than T frames, and a stored chunk of fewer than T
\* frames has the highest index of its recording.
C23_SegmentSizes ==
  /\ \A i \in 1..Len(inflight) :
       inflight[i].owner = 0 => Len(inflight[i].blob) = sliceFramesTarget
  /\ \A c \in chunks :
       /\ Len(c.blob) <= sliceFramesTarget
       /\ (Len(c.blob) < sliceFramesTarget => c.index = Max(ChunkIdxs(c.recordingId)))

\* C24: of two stored chunks of one recording with indices n and n+1, the
\* endMs of the first is the startMs of the second.
C24_TimingContiguous ==
  \A c, d \in chunks :
    (c.recordingId = d.recordingId /\ d.index = c.index + 1) => c.endMs = d.startMs

\* startMs and endMs as the index and the frame count of a chunk give them
TimedByOwnIndex(c) ==
  /\ c.startMs = (c.index * sliceFramesTarget * 1000) \div sampleRate
  /\ Len(c.blob) = sliceFramesTarget =>
       c.endMs = ((c.index + 1) * sliceFramesTarget * 1000) \div sampleRate
  /\ Len(c.blob) < sliceFramesTarget =>
       c.endMs = c.startMs + (Len(c.blob) * 1000) \div sampleRate

\* C25: every chunk, stored or on its way to the store, has startMs =
\* n*T/sampleRate*1000 for its own index n, endMs = (n+1)*T/sampleRate*1000
\* when it is full and endMs = startMs + frames/sampleRate*1000 when it is
\* partial, also while several flushes are outstanding.
C25_TimingFromOwnIndex ==
  /\ \A c \in chunks : TimedByOwnIndex(c)
  /\ \A i \in 1..Len(inflight) : TimedByOwnIndex(inflight[i])

C25_Witness ==
  /\ Len(inflight) = 2
  /\ inflight[1].owner = 0 /\ inflight[2].owner = 0
  /\ inflight[1].recordingId = inflight[2].recordingId
  /\ inflight[1].index = 0 /\ inflight[2].index = 1
  /\ inflight[2].startMs > 0

\* C26: the slice target start() sets is a positive multiple of 128 frames
\* and is at least 0.25 s of audio at the negotiated rate, for every
\* chunkSeconds option, those below 0.25 included.
C26_SliceTargetAligned ==
  lastCall = "start" =>
    /\ sliceFramesTarget > 0
    /\ sliceFramesTarget % 128 = 0
    /\ sliceFramesTarget * 1000 >= 250 * sampleRate

\* C27: the turn in which the callback keeps a block appends the block to
\* the accumulation buffer and does nothing else: chunkIndex, the counters
\* and the store are unchanged and no putChunk is issued; a putChunk is only
\* ever issued in another turn.
C27_CallbackOnlyAppends ==
  /\ [][ nBlocks' # nBlocks =>
           /\ Len(accum') = Len(accum) + BlockLen
           /\ SubSeq(accum', 1, Len(accum)) = accum
           /\ UNCHANGED <<chunkIndex, stats, recordings, manifests, chunks>> ]_vars
  /\ [][ Keys(inflight') \ Keys(inflight) # {} => nBlocks' = nBlocks ]_vars

\* C28: a 'stats' event is emitted only in a tick taken while status is
\* recording; its durationMs is now - startTs - pausedAccum, the expression
\* finalizeSession uses, which is the time since the session began less its
\* completed pause spans, and it is not below a duration reported before
\* in the session (stats.durationMs holds the last report once one was
\* made).
C28_StatsWhileRecording ==
  [][ emitStats' # <<>> =>
        /\ status = "recording" /\ status' = "recording"
        /\ Len(emitStats') = 1
        /\ emitStats'[1].durationMs = now - startTs - pausedAccum
        /\ emitStats'[1].durationMs = effectiveDuration(now, startTs, pausedAccum)
        /\ emitStats'[1].durationMs = (now - startTs) - spanSum
        /\ (reported => emitStats'[1].durationMs >= stats.durationMs) ]_vars

C28_Witness ==
  /\ emitStats # <<>>
  /\ emitStats[1].durationMs > 0
  /\ spanSum > 0
  /\ reported
  /\ status = "recording"

\* C29: start() calls that overlap give one session: at most one capture
\* stream is running, at most one of the calls gets as far as creating its
\* Recording, and at most one Recording is in status recording.
C29_OverlappingStartsOneSession ==
  /\ Cardinality(live) <= 1
  /\ Cardinality({t \in startTasks : t.pc # "acquire"}) <= 1
  /\ (Cardinality(startTasks) >= 2 =>
        Cardinality({id \in Ids : recordings[id].status = "recording"}) <= 1)

\* C30: once a Recording is marked ready its chunks do not change: no
\* putChunk for it completes afterwards.
C30_NoChunkAfterReady ==
  [][ \A id \in Ids :
        recordings[id].status = "ready" =>
          {c \in chunks' : c.recordingId = id} = {c \in chunks : c.recordingId = id} ]_vars

\* C31: a 'chunk' event carries the index of the chunk whose write has just
\* completed, also when several writes are outstanding; every stored index
\* is thus announced by its own event.
C31_ChunkEventIndex ==
  [][ emitChunk' # <<>> =>
        /\ inflight # <<>>
        /\ Len(emitChunk') = 1
        /\ emitChunk'[1].index = Head(inflight).index
        /\ HasChunk(chunks', Head(inflight).recordingId, emitChunk'[1].index) ]_vars

\* C34: whenever status is idle and no start() or stop() call is in
\* progress, the controller holds no capture stream and no audio graph,
\* also after a start() that failed once the device had been acquired.
C34_IdleHoldsNothing ==
  (status = "idle" /\ startTasks = {} /\ stopTasks = {}) =>
     (stream = 0 /\ proc = 0)

\* C35: when stop() finishes, by returning or by rejecting after a store
\* operation it awaited failed, the device and the graph are released and
\* status is idle.
C35_StopAlwaysReleases ==
  [][ \A tid \in DOMAIN stopOutcome :
        (stopOutcome[tid] \notin {"done", "rejected"} /\
         stopOutcome'[tid] \in {"done", "rejected"}) =>
           (status' = "idle" /\ stream' = 0 /\ proc' = 0) ]_vars

\* C36: a run of flushFullSlices persists at most floor(frames / T) chunks
\* of the frames it finds and returns: the slice target T is never 0, and
\* the chunks a session has issued never outnumber the full slices, let
\* alone the frames, the callback has kept.
C36_FlushRunBounded ==
  /\ chunkIndex <= nextFrame
  /\ sliceFramesTarget > 0 => chunkIndex <= nextFrame \div sliceFramesTarget

\* C37: when deleteRecording(id) has run against a session that is
\* recording or finalizing, then once the delete has resolved and the session has
\* stopped with no store operation pending, the store holds no recording
\* row, no manifest and no chunk for id.
C37_DeleteDuringSessionSticks ==
  \A id \in CallerIds :
    ( /\ delLog[id].called /\ {"recording", "manifest"} \subseteq delLog[id].had
      /\ \A t \in delTasks : t.id # id
      /\ storeCall.op = "deleteRecording" /\ storeCall.id = id
      /\ storeCall.result = "ok"
      /\ id \in stopped
      /\ startTasks = {} /\ stopTasks = {} /\ inflight = <<>> /\ ~microtask )
    => Parts(id) = {}

\* C32: container-native recorder: every chunk a session's MediaRecorder
\* delivers, and the durationMs and the 'ready' written when it stops, are
\* stored under that session's own id and computed from that session's own
\* startTs, also when the next start() is called before the old recorder's
\* last dataavailable and stop events are handled; nothing is dropped.
C32_HandlersUseOwnSession ==
  /\ \A c \in chunks : c.recordingId = c.blob[1]
  /\ \A e \in mrLog :
        /\ e.kind \in {"duration", "ready"}
        /\ e.id = e.by
        /\ e.kind = "duration" => e.finStart = sessLog[e.by].began

\* C33: container-native recorder: the durationMs a session's own handler
\* writes for it is its wall-clock time minus its own paused time and is
\* not negative; a pause span of an earlier session is not subtracted.
C33_DurationOfOwnSession ==
  \A e \in mrLog :
    (e.kind = "duration" /\ e.id = e.by /\ e.finStart = sessLog[e.by].began) =>
       /\ e.dur = (e.finTs - sessLog[e.by].began) - e.ownPaused
       /\ e.dur >= 0

====
